---- MODULE Spec2Model ----
(***************************************************************************)
(* A model of UltiPDF (pdfmaster): the page-range parser, the file-type    *)
(* validators, the application controller (tool selection, file intake,    *)
(* dispatch) and the page-organising operations.                           *)
(*                                                                         *)
(* The module holds several specifications over one set of variables; a    *)
(* specification leaves the variables of the other parts at their idle     *)
(* values.                                                                 *)
(*   SpecParse  parsePageRange applied to bounded input expressions        *)
(*   SpecValid  the file-type validators applied to a file                 *)
(*   SpecApp    the controller: selectTool, handleFiles, removeFile,       *)
(*              reset and process, interleaved at the awaits               *)
(*   SpecTools  the controller with every tool of the registry             *)
(*   SpecOrg    the operations of OrganizeTools, one loop iteration a step *)
(*   SpecPages  the thumbnails: rendering, rotating, deleting, dragging    *)
(*   SpecFlow   select a file, remove pages, process, for the page tools   *)
(*   SpecRotate rotations of the pages of one document, one after another  *)
(*   SpecRecent the list of recent files in localStorage                   *)
(*   SpecRuns   app.process clicked again and again                        *)
(*   SpecItems  repair and imagesToPDF on items some of which fail         *)
(*   SpecSec    addPassword and removeMetadata applied to a document       *)
(*   SpecRouter app.init, the router and the handlers that navigate        *)
(*   SpecTrigger app.process, with what was selected at each click         *)
(*   SpecLoader the loader overlay under app.process and downloadAsZip     *)
(***************************************************************************)
EXTENDS Integers, Sequences, FiniteSets, TLC

VARIABLES
    pInput,     \* parsePageRange: the input expression, a sequence of characters
    pPages,     \* parsePageRange: the returned array
    pPc,        \* parsePageRange: "call" before the call, "done" after it
    vFile,      \* validators: the file checked
    vRes,       \* validators: what isValidPDF, isValidImage, isValidDoc returned
    vPc,        \* validators: "call" before the calls, "done" after them
    activeTool, \* app.activeTool: the id of the selected tool, or Null
    files,      \* app.files
    hash,       \* window.location.hash, without the '#'
    loader,     \* whether the loader overlay is shown
    toast,      \* the toast shown last
    runs,       \* the invocations of app.process, in the order of the clicks
    event,      \* the handleFiles call that ran last, if nothing ran since
    dropHidden, \* whether #drop-zone is hidden (and #editor-area shown)
    grid,       \* the children of #thumbnails-grid: thumbnails and file cards
    pageState,  \* UI.pageState, the array it refers to now
    renders,    \* the invocations of UI.renderThumbnails still running
    pageConfig, \* the array pageConfig a running organize was handed
    oOp,        \* organize: the operation called ("merge", "split", "deletePages", ...)
    oFiles,     \* organize: the files handed to the operation
    oArg,       \* organize: pageNumbersToDelete
    oPc,        \* organize: where the call stands
    oI,         \* organize: the loop counter i (for merge, the files taken so far)
    oProcessed, \* organize: processedFiles of mergePDFs, processedCount of deletePages
    oNewPdf,    \* organize: the pages of mergedPdf or newPdf
    oSplitPDFs, \* organize: the array splitPDFs
    oProgress,  \* organize: the reports to progressCallback, in order
    oResult,    \* organize: the value the call returned
    rStart,     \* rotation: the /Rotate of a page of the document at first
    rDoc,       \* rotation: the /Rotate of the page now
    rDeltas,    \* rotation: the rotation of the entry of UI.pageState for the page
    rClicks,    \* rotation: the clicks on its rotate button since the render
    rLog,       \* rotation: the degrees each operation so far was to add
    result,     \* #result-area: what the download container offers, if shown
    recent,     \* localStorage 'recentFiles', parsed
    saves,      \* the entries UI.saveRecentFile was called with, in order
    oError,     \* organize: the message of the error the call threw
    sIn,        \* security: the document in the file handed to the calls
    sLog,       \* security: the calls made, each with its input and outcome
    views,      \* router: the ids (less 'view-') of the elements of class view
    active,     \* router: the views that have the class active
    handled,    \* router: whether init ran, and whether a hashchange waits
    clicked,    \* process: the tool and the files at each click, in order
    zip         \* downloadAsZip: where its invocation stands

parseVars == <<pInput, pPages, pPc>>
validVars == <<vFile, vRes, vPc>>
appVars == <<activeTool, files, hash, loader, toast, runs, event>>
uiVars == <<dropHidden, grid, pageState, renders, pageConfig>>
orgVars == <<oOp, oFiles, oArg, oPc, oI, oProcessed, oNewPdf, oSplitPDFs,
             oProgress, oResult>>
rotVars == <<rStart, rDoc, rDeltas, rClicks, rLog>>
outVars == <<result, recent, saves>>
itemVars == <<oError>>
secVars == <<sIn, sLog>>
navVars == <<views, active, handled>>
trigVars == <<clicked>>
zipVars == <<zip>>
otherVars == <<oError, sIn, sLog, views, active, handled, clicked, zip>>
vars == <<pInput, pPages, pPc, vFile, vRes, vPc,
          activeTool, files, hash, loader, toast, runs, event,
          dropHidden, grid, pageState, renders, pageConfig,
          oOp, oFiles, oArg, oPc, oI, oProcessed, oNewPdf, oSplitPDFs,
          oProgress, oResult,
          rStart, rDoc, rDeltas, rClicks, rLog, result, recent, saves,
          oError, sIn, sLog, views, active, handled, clicked, zip>>

(***************************************************************************)
(* Bounds of the model.                                                    *)
(***************************************************************************)
\* Longest input expression of parsePageRange, in characters.
MaxLen == 5
\* Largest number written in a bounded input expression.
MaxNum == 12
\* Most clicks on the process button in a behaviour.
MaxRuns == 1
\* Most files handed to merge.
MaxFiles == 2
\* Most pages of a source document.
MaxPages == 3
\* Most entries of pageNumbersToDelete.
MaxDel == 2
\* Most pages of a document whose thumbnails are rendered.
MaxThumbs == 2
\* Most invocations of renderThumbnails running at a time.
MaxRenders == 2
\* Most rotations of a page one after another: operations, and clicks on
\* the rotate button of a thumbnail.
MaxTurns == 4
\* Most clicks on the process button in a behaviour of SpecRuns.
MaxClicks == 2
\* Most calls of UI.saveRecentFile in a behaviour.
MaxSaves == 11

(***************************************************************************)
(* Sequence helpers.                                                       *)
(***************************************************************************)
Range(s) == {s[i] : i \in 1..Len(s)}

SeqsUpTo(S, n) == UNION {[1..k -> S] : k \in 0..n}

\* Array.prototype.splice(index, 1) with a 0-based index: nothing is removed
\* at an index beyond the end.
RemoveAt(s, index) ==
    IF index >= Len(s) THEN s
    ELSE SubSeq(s, 1, index) \o SubSeq(s, index + 2, Len(s))

\* String.prototype.includes for strings held as sequences of characters.
Contains(s, sub) ==
    \E i \in 1..(Len(s) - Len(sub) + 1) : SubSeq(s, i, i + Len(sub) - 1) = sub

(***************************************************************************)
(* The values of the variables of a part no action has touched.            *)
(***************************************************************************)
Null == "null"
NoFile == [type |-> "", name |-> <<>>]
NoVerdict == [pdf |-> FALSE, image |-> FALSE, doc |-> FALSE]
NoToast == [msg |-> "", type |-> ""]
NoEvent == [tid |-> Null, list |-> <<>>, res |-> ""]
NoConfig == [live |-> FALSE, arr |-> <<>>]
NoResult == [shown |-> "none", outputs |-> <<>>]

ParseIdle == pInput = <<>> /\ pPages = <<>> /\ pPc = "off"

ValidIdle == vFile = NoFile /\ vRes = NoVerdict /\ vPc = "off"

AppIdle ==
    /\ activeTool = Null
    /\ files = <<>>
    /\ hash = ""
    /\ loader = FALSE
    /\ toast = NoToast
    /\ runs = <<>>
    /\ event = NoEvent


\* The workspace as resetWorkspace leaves it, with nothing rendered.
UiIdle ==
    /\ dropHidden = FALSE
    /\ grid = <<>>
    /\ pageState = <<>>
    /\ renders = <<>>
    /\ pageConfig = NoConfig

OrgIdle ==
    /\ oOp = Null
    /\ oFiles = <<>>
    /\ oArg = <<>>
    /\ oPc = "off"
    /\ oI = 0
    /\ oProcessed = 0
    /\ oNewPdf = <<>>
    /\ oSplitPDFs = <<>>
    /\ oProgress = <<>>
    /\ oResult = <<>>

RotIdle ==
    /\ rStart = 0
    /\ rDoc = 0
    /\ rDeltas = 0
    /\ rClicks = 0
    /\ rLog = <<>>

\* Nothing processed yet, in a browser that never stored a recent file.
OutIdle == result = NoResult /\ recent = <<>> /\ saves = <<>>

ItemIdle == oError = ""

NoDoc == [pages |-> <<>>, loads |-> FALSE]

SecIdle == sIn = NoDoc /\ sLog = <<>>

NotHandled == [init |-> FALSE, pending |-> FALSE]

NavIdle == views = {} /\ active = {} /\ handled = NotHandled

TrigIdle == clicked = <<>>

ZipIdle == zip = "off"

OtherIdle == ItemIdle /\ SecIdle /\ NavIdle /\ TrigIdle /\ ZipIdle

(***************************************************************************)
(* parsePageRange (src/unnamed/part_000:598-615).                          *)
(* A string is a sequence of one-character strings.  NaN is the value      *)
(* parseInt returns for a string with no leading digits; no parsed number  *)
(* is negative, because every '-' is consumed by split('-').               *)
(***************************************************************************)
NaN == -1

DigitChars == {"0", "1", "2", "3", "4", "5", "6", "7", "8", "9"}

DigitVal(c) ==
    CASE c = "0" -> 0 [] c = "1" -> 1 [] c = "2" -> 2 [] c = "3" -> 3
      [] c = "4" -> 4 [] c = "5" -> 5 [] c = "6" -> 6 [] c = "7" -> 7
      [] c = "8" -> 8 [] c = "9" -> 9

\* String.prototype.split(sep) for a one-character separator: the pieces
\* between the separators, empty pieces included; "" gives [""].
RECURSIVE SplitAcc(_, _, _, _)
SplitAcc(s, sep, cur, acc) ==
    IF s = <<>> THEN Append(acc, cur)
    ELSE IF Head(s) = sep
         THEN SplitAcc(Tail(s), sep, <<>>, Append(acc, cur))
         ELSE SplitAcc(Tail(s), sep, Append(cur, Head(s)), acc)

Split(s, sep) == SplitAcc(s, sep, <<>>, <<>>)

\* String.prototype.trim(): leading and trailing white space removed.
RECURSIVE TrimLeft(_)
TrimLeft(s) ==
    IF s # <<>> /\ Head(s) = " " THEN TrimLeft(Tail(s)) ELSE s

RECURSIVE TrimRight(_)
TrimRight(s) ==
    IF s # <<>> /\ s[Len(s)] = " " THEN TrimRight(SubSeq(s, 1, Len(s) - 1)) ELSE s

Trim(s) == TrimRight(TrimLeft(s))

\* String.prototype.includes(c) for a one-character string.
Includes(s, c) == \E i \in 1..Len(s) : s[i] = c

\* The value of the longest prefix of digits, given the value so far.
RECURSIVE DigitPrefix(_, _)
DigitPrefix(s, acc) ==
    IF s # <<>> /\ Head(s) \in DigitChars
    THEN DigitPrefix(Tail(s), acc * 10 + DigitVal(Head(s)))
    ELSE acc

ParseIntFirstDigitOnly(s) ==
    LET t == TrimLeft(s)
    IN  IF t # <<>> /\ Head(t) \in DigitChars THEN DigitVal(Head(t)) ELSE NaN

\* parseInt(s): leading white space is skipped, the longest prefix of
\* digits is read and what follows is ignored; no digit gives NaN.
ParseInt(s) ==
    LET t == TrimLeft(s)
    IN  IF t # <<>> /\ Head(t) \in DigitChars THEN DigitPrefix(t, 0) ELSE NaN

\* Set.prototype.add on a Set kept in insertion order (NaN is one value).
SetAdd(pages, v) == IF v \in Range(pages) THEN pages ELSE Append(pages, v)

\* for (let i = start; i <= end; i++) pages.add(i): a comparison with NaN
\* is false, so a NaN start or end runs no iteration.
RECURSIVE AddRange(_, _, _)
AddRange(pages, i, end) ==
    IF i = NaN \/ end = NaN \/ i > end THEN pages
    ELSE AddRange(SetAdd(pages, i), i + 1, end)

RangePartSwapsReversed(pages, part) ==
    LET nums  == Split(part, "-")
        start == ParseInt(Trim(nums[1]))
        end   == ParseInt(Trim(nums[2]))
    IN  IF start # NaN /\ end # NaN /\ start > end
        THEN AddRange(pages, end, start)
        ELSE AddRange(pages, start, end)

\* const [start, end] = part.split('-').map(n => parseInt(n.trim())); loop
RangePart(pages, part) ==
    LET nums == Split(part, "-")
    IN  AddRange(pages, ParseInt(Trim(nums[1])), ParseInt(Trim(nums[2])))

\* The body of parts.forEach.
AddPart(pages, rawPart) ==
    LET part == Trim(rawPart)
    IN  IF Includes(part, "-") THEN RangePart(pages, part)
        ELSE SetAdd(pages, ParseInt(part))

RECURSIVE ForEachPart(_, _)
ForEachPart(pages, parts) ==
    IF parts = <<>> THEN pages
    ELSE ForEachPart(AddPart(pages, Head(parts)), Tail(parts))

\* The comparator (a, b) => a - b as Array.prototype.sort reads it: a NaN
\* result counts as +0, the two values compare equal.
Compare(a, b) == IF a = NaN \/ b = NaN THEN 0 ELSE a - b

\* Insertion of x into a sorted prefix, scanning from the right (the stable
\* insertion sort of short arrays).
RECURSIVE InsertLinear(_, _, _)
InsertLinear(sorted, x, j) ==
    IF j >= 1 /\ Compare(sorted[j], x) > 0 THEN InsertLinear(sorted, x, j - 1)
    ELSE SubSeq(sorted, 1, j) \o <<x>> \o SubSeq(sorted, j + 1, Len(sorted))

RECURSIVE SortLinear(_, _)
SortLinear(sorted, rest) ==
    IF rest = <<>> THEN sorted
    ELSE SortLinear(InsertLinear(sorted, Head(rest), Len(sorted)), Tail(rest))

\* Insertion of x by binary search of the sorted prefix (the binary
\* insertion sort of short arrays).
RECURSIVE InsertBinary(_, _, _, _)
InsertBinary(sorted, x, left, right) ==
    IF left < right
    THEN LET mid == (left + right) \div 2
         IN  IF Compare(x, sorted[mid + 1]) < 0
             THEN InsertBinary(sorted, x, left, mid)
             ELSE InsertBinary(sorted, x, mid + 1, right)
    ELSE SubSeq(sorted, 1, left) \o <<x>> \o SubSeq(sorted, left + 1, Len(sorted))

RECURSIVE SortBinary(_, _)
SortBinary(sorted, rest) ==
    IF rest = <<>> THEN sorted
    ELSE SortBinary(InsertBinary(sorted, Head(rest), 0, Len(sorted)), Tail(rest))

\* Array.prototype.sort((a, b) => a - b).  With NaN among several numbers
\* the comparator is not a consistent one and the order is implementation-
\* defined: the outcomes are those of the two insertion sorts engines run
\* on short arrays.  Without NaN both give the ascending order.
SortOutcomes(arr) == {SortLinear(<<>>, arr), SortBinary(<<>>, arr)}

\* The Set of pages in insertion order, before the final sort.
PagesOf(input) == ForEachPart(<<>>, Split(input, ","))

\* The arrays parsePageRange(input) can return.
parsePageRange(input) == SortOutcomes(PagesOf(input))

(***************************************************************************)
(* Files and the file-type validators (src/unnamed/part_004:83-101).       *)
(* A file is its declared MIME type and its name, a sequence of            *)
(* characters; nothing reads its content.                                  *)
(***************************************************************************)
MimePdf  == "application/pdf"
MimeJpeg == "image/jpeg"
MimePng  == "image/png"
MimeJpg  == "image/jpg"
MimeDocx == "application/vnd.openxmlformats-officedocument.wordprocessingml.document"
MimeDoc  == "application/msword"
MimeXlsx == "application/vnd.openxmlformats-officedocument.spreadsheetml.sheet"
MimeXls  == "application/vnd.ms-excel"
MimePptx == "application/vnd.openxmlformats-officedocument.presentationml.presentation"
MimePpt  == "application/vnd.ms-powerpoint"

\* String.prototype.toLowerCase, on the letters the file names hold.
LowerChar(c) ==
    CASE c = "P" -> "p" [] c = "D" -> "d" [] c = "F" -> "f" [] c = "N" -> "n"
      [] c = "G" -> "g" [] OTHER -> c

ToLowerCase(s) == [i \in 1..Len(s) |-> LowerChar(s[i])]

\* String.prototype.endsWith
EndsWith(s, suffix) ==
    /\ Len(s) >= Len(suffix)
    /\ SubSeq(s, Len(s) - Len(suffix) + 1, Len(s)) = suffix

DotPdf == <<".", "p", "d", "f">>

isValidPDFTypeAndName(file) ==
    file.type = MimePdf /\ EndsWith(ToLowerCase(file.name), DotPdf)

isValidPDF(file) ==
    file.type = MimePdf \/ EndsWith(ToLowerCase(file.name), DotPdf)

isValidImage(file) == file.type \in {MimeJpeg, MimePng, MimeJpg}

isValidDoc(file) ==
    file.type \in {MimeDocx, MimeDoc, MimeXlsx, MimeXls, MimePptx, MimePpt}

(***************************************************************************)
(* The application controller (src/unnamed/part_000).                      *)
(* A tool definition keeps the id, name, category and multiple fields of   *)
(* app.toolDefs; chars spells the id out, for String.prototype.includes.   *)
(***************************************************************************)
toolDefs ==
    << [id |-> "merge", name |-> "Merge PDFs", category |-> "organize",
        multiple |-> TRUE,
        chars |-> <<"m", "e", "r", "g", "e">>],
       [id |-> "split", name |-> "Split PDF", category |-> "organize",
        multiple |-> FALSE,
        chars |-> <<"s", "p", "l", "i", "t">>],
       [id |-> "organize", name |-> "Organize Pages", category |-> "organize",
        multiple |-> FALSE,
        chars |-> <<"o", "r", "g", "a", "n", "i", "z", "e">>],
       [id |-> "extract", name |-> "Extract Pages", category |-> "organize",
        multiple |-> FALSE,
        chars |-> <<"e", "x", "t", "r", "a", "c", "t">>],
       [id |-> "delete-pages", name |-> "Delete Pages", category |-> "organize",
        multiple |-> FALSE,
        chars |-> <<"d", "e", "l", "e", "t", "e", "-", "p", "a", "g", "e", "s">>],
       [id |-> "rotate", name |-> "Rotate PDF", category |-> "organize",
        multiple |-> FALSE,
        chars |-> <<"r", "o", "t", "a", "t", "e">>],
       [id |-> "reverse", name |-> "Reverse Pages", category |-> "organize",
        multiple |-> FALSE,
        chars |-> <<"r", "e", "v", "e", "r", "s", "e">>],
       [id |-> "compress", name |-> "Compress PDF", category |-> "optimize",
        multiple |-> FALSE,
        chars |-> <<"c", "o", "m", "p", "r", "e", "s", "s">>],
       [id |-> "repair", name |-> "Repair PDF", category |-> "optimize",
        multiple |-> FALSE,
        chars |-> <<"r", "e", "p", "a", "i", "r">>],
       [id |-> "optimize", name |-> "Optimize PDF", category |-> "optimize",
        multiple |-> FALSE,
        chars |-> <<"o", "p", "t", "i", "m", "i", "z", "e">>],
       [id |-> "pdf-to-word", name |-> "PDF to Word", category |-> "convert",
        multiple |-> FALSE,
        chars |-> <<"p", "d", "f", "-", "t", "o", "-", "w", "o", "r", "d">>],
       [id |-> "pdf-to-excel", name |-> "PDF to Excel", category |-> "convert",
        multiple |-> FALSE,
        chars |-> <<"p", "d", "f", "-", "t", "o", "-", "e", "x", "c", "e", "l">>],
       [id |-> "pdf-to-ppt", name |-> "PDF to PowerPoint", category |-> "convert",
        multiple |-> FALSE,
        chars |-> <<"p", "d", "f", "-", "t", "o", "-", "p", "p", "t">>],
       [id |-> "pdf-to-jpg", name |-> "PDF to JPG", category |-> "convert",
        multiple |-> FALSE,
        chars |-> <<"p", "d", "f", "-", "t", "o", "-", "j", "p", "g">>],
       [id |-> "pdf-to-png", name |-> "PDF to PNG", category |-> "convert",
        multiple |-> FALSE,
        chars |-> <<"p", "d", "f", "-", "t", "o", "-", "p", "n", "g">>],
       [id |-> "pdf-to-text", name |-> "PDF to Text", category |-> "convert",
        multiple |-> FALSE,
        chars |-> <<"p", "d", "f", "-", "t", "o", "-", "t", "e", "x", "t">>],
       [id |-> "images-to-pdf", name |-> "Images to PDF", category |-> "convert",
        multiple |-> TRUE,
        chars |-> <<"i", "m", "a", "g", "e", "s", "-", "t", "o", "-", "p", "d", "f">>],
       [id |-> "word-to-pdf", name |-> "Word to PDF", category |-> "convert",
        multiple |-> FALSE,
        chars |-> <<"w", "o", "r", "d", "-", "t", "o", "-", "p", "d", "f">>],
       [id |-> "excel-to-pdf", name |-> "Excel to PDF", category |-> "convert",
        multiple |-> FALSE,
        chars |-> <<"e", "x", "c", "e", "l", "-", "t", "o", "-", "p", "d", "f">>],
       [id |-> "ppt-to-pdf", name |-> "PowerPoint to PDF", category |-> "convert",
        multiple |-> FALSE,
        chars |-> <<"p", "p", "t", "-", "t", "o", "-", "p", "d", "f">>],
       [id |-> "add-text", name |-> "Add Text", category |-> "edit",
        multiple |-> FALSE,
        chars |-> <<"a", "d", "d", "-", "t", "e", "x", "t">>],
       [id |-> "add-image", name |-> "Add Image", category |-> "edit",
        multiple |-> FALSE,
        chars |-> <<"a", "d", "d", "-", "i", "m", "a", "g", "e">>],
       [id |-> "watermark", name |-> "Add Watermark", category |-> "security",
        multiple |-> FALSE,
        chars |-> <<"w", "a", "t", "e", "r", "m", "a", "r", "k">>],
       [id |-> "page-numbers", name |-> "Page Numbers", category |-> "edit",
        multiple |-> FALSE,
        chars |-> <<"p", "a", "g", "e", "-", "n", "u", "m", "b", "e", "r", "s">>],
       [id |-> "header-footer", name |-> "Header/Footer", category |-> "edit",
        multiple |-> FALSE,
        chars |-> <<"h", "e", "a", "d", "e", "r", "-", "f", "o", "o", "t", "e", "r">>],
       [id |-> "protect", name |-> "Password Protect", category |-> "security",
        multiple |-> FALSE,
        chars |-> <<"p", "r", "o", "t", "e", "c", "t">>],
       [id |-> "unlock", name |-> "Unlock PDF", category |-> "security",
        multiple |-> FALSE,
        chars |-> <<"u", "n", "l", "o", "c", "k">>],
       [id |-> "remove-metadata", name |-> "Remove Metadata", category |-> "security",
        multiple |-> FALSE,
        chars |-> <<"r", "e", "m", "o", "v", "e", "-", "m", "e", "t", "a", "d", "a", "t", "a">>] >>

ToolIds == {toolDefs[i].id : i \in 1..Len(toolDefs)}

\* app.toolDefs.find(t => t.id === id)
ToolDef(id) == toolDefs[CHOOSE i \in 1..Len(toolDefs) : toolDefs[i].id = id]

Word   == <<"w", "o", "r", "d">>
Images == <<"i", "m", "a", "g", "e", "s">>
Pdf    == <<"p", "d", "f">>
DashToDash == <<"-", "t", "o", "-">>

\* The callback of app.files.every in handleFiles.
fileOK(tid, f) ==
    LET c == ToolDef(tid).chars
    IN  IF Contains(c, Word) THEN isValidDoc(f)
        ELSE IF Contains(c, Images) THEN isValidImage(f)
        ELSE IF Contains(c, Pdf) \/ ~Contains(c, DashToDash) THEN isValidPDF(f)
        ELSE TRUE

isValid(tid, list) == \A i \in 1..Len(list) : fileOK(tid, list[i])

filesOnInvalidKept(selected) == selected

\* app.files after a selection failed the type check: app.files = [].
filesOnInvalid(selected) == <<>>

Toast(msg, type) == [msg |-> msg, type |-> type]

\* What handleFiles was called with and what it did, until another handler
\* or continuation runs.
Event(tid, list, res) == [tid |-> tid, list |-> list, res |-> res]

\* Array.from(fileList), each file marked with the verdict handleFiles
\* reaches on the selection that brought it.  A file of a selection carries,
\* beside its declared type and name, the pages of the document in it,
\* whether the libraries can load it and, where it matters, the rotation
\* its pages have.
Selected(fileList, verdict) ==
    [i \in 1..Len(fileList) |->
        [field \in DOMAIN fileList[i] \cup {"verdict"} |->
            IF field = "verdict" THEN verdict ELSE fileList[i][field]]]

\* The children of #thumbnails-grid: the thumbnail of a page, whose buttons
\* call rotatePage(index) and deletePage(index), and the card of a file,
\* whose button calls removeFile(index).
Thumb(index) == [kind |-> "thumb", index |-> index]
Card(index) == [kind |-> "file", index |-> index]

\* What a read beyond the end of an array gives, as an entry of UI.pageState.
Undefined == [undefined |-> TRUE]

IsUndefined(entry) == "undefined" \in DOMAIN entry

\* The tools whose workspace shows page thumbnails.
ThumbTools == {"organize", "split", "delete-pages"}

\* The pages renderThumbnails previews at most.
PreviewLimit == 50

Min(a, b) == IF a < b THEN a ELSE b

\* UI.pageState = []: a new array; an organize still running keeps the
\* array it was handed, as it is now.
replacePageState ==
    /\ pageState' = <<>>
    /\ pageConfig' = IF pageConfig.live
                        THEN [live |-> FALSE, arr |-> pageState]
                        ELSE pageConfig

resetWorkspaceKeepsFiles ==
    /\ replacePageState
    /\ dropHidden' = FALSE
    /\ result' = NoResult
    /\ UNCHANGED <<files, grid, renders>>

\* app.resetWorkspace: no files, no page state, the drop zone shown, the
\* editor area and the result area hidden.  The grid keeps its children.
resetWorkspace ==
    /\ files' = <<>>
    /\ replacePageState
    /\ dropHidden' = FALSE
    /\ result' = NoResult
    /\ UNCHANGED <<grid, renders>>

\* app.selectTool(id): sets the tool, goes to the workspace, resets it.
selectTool(id) ==
    /\ activeTool' = ToolDef(id).id
    /\ hash' = "workspace"
    /\ resetWorkspace
    /\ event' = NoEvent
    /\ UNCHANGED <<loader, toast, runs>>

\* app.reset
reset ==
    /\ resetWorkspace
    /\ hash' = "dashboard"
    /\ event' = NoEvent
    /\ UNCHANGED <<activeTool, loader, toast, runs>>

\* UI.updateFileList(files): the grid holds one card a file.
updateFileList(list) == grid' = [i \in 1..Len(list) |-> Card(i - 1)]

\* UI.renderThumbnails(file), to its first await: the grid is emptied and
\* UI.pageState replaced; reading the file waits.  Without a file
\* (app.files[0] of no files) the read throws at once and the catch shows
\* its toast.
renderThumbnails(list) ==
    /\ grid' = <<>>
    /\ replacePageState
    /\ IF list = <<>>
          THEN /\ toast' = Toast("Could not generate previews. File might be encrypted or corrupted.", "error")
               /\ UNCHANGED renders
          ELSE /\ renders' = Append(renders, [file |-> list[1], i |-> 1, pc |-> "load"])
               /\ UNCHANGED toast

handleFilesAnyCount(fileList) ==
    IF activeTool = Null
    THEN /\ event' = Event(activeTool, fileList, "ignored")
         /\ UNCHANGED <<activeTool, files, hash, loader, toast, runs>>
         /\ UNCHANGED uiVars
    ELSE IF ~isValid(activeTool, fileList)
    THEN /\ files' = filesOnInvalid(Selected(fileList, "rejected"))
         /\ toast' = Toast("Invalid file type for this tool.", "error")
         /\ event' = Event(activeTool, fileList, "rejected-type")
         /\ UNCHANGED <<activeTool, hash, loader, runs>>
         /\ UNCHANGED uiVars
    ELSE /\ files' = Selected(fileList, "accepted")
         /\ event' = Event(activeTool, fileList, "accepted")
         /\ dropHidden' = TRUE
         /\ IF activeTool \in ThumbTools
               THEN renderThumbnails(Selected(fileList, "accepted"))
               ELSE /\ updateFileList(fileList)
                    /\ UNCHANGED <<toast, pageState, renders, pageConfig>>
         /\ UNCHANGED <<activeTool, hash, loader, runs>>

\* app.handleFiles(fileList), to its await.
handleFiles(fileList) ==
    IF activeTool = Null
    THEN /\ event' = Event(activeTool, fileList, "ignored")
         /\ UNCHANGED <<activeTool, files, hash, loader, toast, runs>>
         /\ UNCHANGED uiVars
    ELSE IF ~ToolDef(activeTool).multiple /\ Len(fileList) > 1
    THEN /\ toast' = Toast("This tool accepts only one file at a time.", "error")
         /\ event' = Event(activeTool, fileList, "rejected-count")
         /\ UNCHANGED <<activeTool, files, hash, loader, runs>>
         /\ UNCHANGED uiVars
    ELSE IF ~isValid(activeTool, fileList)
    THEN /\ files' = filesOnInvalid(Selected(fileList, "rejected"))
         /\ toast' = Toast("Invalid file type for this tool.", "error")
         /\ event' = Event(activeTool, fileList, "rejected-type")
         /\ UNCHANGED <<activeTool, hash, loader, runs>>
         /\ UNCHANGED uiVars
    ELSE /\ files' = Selected(fileList, "accepted")
         /\ event' = Event(activeTool, fileList, "accepted")
         /\ dropHidden' = TRUE
         /\ IF activeTool \in ThumbTools
               THEN renderThumbnails(Selected(fileList, "accepted"))
               ELSE /\ updateFileList(fileList)
                    /\ UNCHANGED <<toast, pageState, renders, pageConfig>>
         /\ UNCHANGED <<activeTool, hash, loader, runs>>

\* app.removeFile(index)
removeFile(index) ==
    /\ IF Len(RemoveAt(files, index)) = 0
          THEN resetWorkspace
          ELSE /\ files' = RemoveAt(files, index)
               /\ updateFileList(RemoveAt(files, index))
               /\ UNCHANGED <<dropHidden, pageState, renders, pageConfig, result>>
    /\ event' = NoEvent
    /\ UNCHANGED <<activeTool, hash, loader, toast, runs>>

\* renderThumbnails after the file is read and pdf.js has opened it, or has
\* thrown: the catch shows its toast and the invocation ends.
renderLoad(k) ==
    /\ renders[k].pc = "load"
    /\ IF renders[k].file.loads
          THEN /\ renders' = [renders EXCEPT ![k].pc = "page"]
               /\ UNCHANGED toast
          ELSE /\ renders' = RemoveAt(renders, k - 1)
               /\ toast' = Toast("Could not generate previews. File might be encrypted or corrupted.", "error")
    /\ event' = NoEvent
    /\ UNCHANGED <<activeTool, files, hash, loader, runs>>
    /\ UNCHANGED <<dropHidden, grid, pageState, pageConfig>>

\* renderThumbnails, one iteration of `for (let i = 1; i <= limit; i++)`
\* once the page is drawn: the thumbnail joins the grid and its entry the
\* array UI.pageState refers to now.
renderPage(k) ==
    /\ renders[k].pc = "page"
    /\ renders[k].i <= Min(renders[k].file.pageCount, PreviewLimit)
    /\ grid' = Append(grid, Thumb(renders[k].i - 1))
    /\ pageState' = Append(pageState, [originalIndex |-> renders[k].i - 1, rotation |-> 0])
    /\ renders' = [renders EXCEPT ![k].i = @ + 1]
    /\ event' = NoEvent
    /\ UNCHANGED <<activeTool, files, hash, loader, toast, runs>>
    /\ UNCHANGED <<dropHidden, pageConfig>>

\* renderThumbnails after its loop: a warning for a document of more pages
\* than were previewed.
renderDone(k) ==
    /\ renders[k].pc = "page"
    /\ renders[k].i > Min(renders[k].file.pageCount, PreviewLimit)
    /\ renders' = RemoveAt(renders, k - 1)
    /\ toast' = IF renders[k].file.pageCount > PreviewLimit
                   THEN Toast("Previewing first 50 of numPages pages", "warning")
                   ELSE toast
    /\ event' = NoEvent
    /\ UNCHANGED <<activeTool, files, hash, loader, runs>>
    /\ UNCHANGED <<dropHidden, grid, pageState, pageConfig>>

\* Array.prototype.find / findIndex with p => p.originalIndex === index:
\* the position (from 1) of the first entry that matches, 0 when none
\* does, -1 when an undefined entry comes first, on which the callback throws.
RECURSIVE findFrom(_, _, _)
findFrom(arr, index, j) ==
    IF j > Len(arr) THEN 0
    ELSE IF IsUndefined(arr[j]) THEN -1
    ELSE IF arr[j].originalIndex = index THEN j
    ELSE findFrom(arr, index, j + 1)

findIndex(arr, index) == findFrom(arr, index, 1)

\* page.rotation = (page.rotation + 90) % 360
rotatePageBy90(rotation) == (rotation + 90) % 360

\* app.rotatePage(index, btn)
rotatePage(index) ==
    /\ LET j == findIndex(pageState, index)
       IN  pageState' = IF j > 0
                           THEN [pageState EXCEPT ![j].rotation = rotatePageBy90(@)]
                           ELSE pageState
    /\ event' = NoEvent
    /\ UNCHANGED <<activeTool, files, hash, loader, toast, runs>>
    /\ UNCHANGED <<dropHidden, grid, renders, pageConfig>>

\* app.deletePage(index, btn), btn being in the child of the grid at
\* position pos (from 1).
deletePage(index, pos) ==
    /\ LET j == findIndex(pageState, index)
       IN  IF j > 0
              THEN /\ pageState' = RemoveAt(pageState, j - 1)
                   /\ grid' = RemoveAt(grid, pos - 1)
                   /\ toast' = Toast("Page removed", "success")
              ELSE UNCHANGED <<pageState, grid, toast>>
    /\ event' = NoEvent
    /\ UNCHANGED <<activeTool, files, hash, loader, runs>>
    /\ UNCHANGED <<dropHidden, renders, pageConfig>>

\* arr.splice(at, 0, item), at being 0-based and clamped to the length.
InsertAt(arr, at, item) ==
    LET a == Min(at, Len(arr))
    IN  SubSeq(arr, 1, a) \o <<item>> \o SubSeq(arr, a + 1, Len(arr))

\* The onEnd of the Sortable on the grid, after it moved the child at
\* oldIndex to newIndex: the same move in UI.pageState, of undefined when
\* the array has no entry at oldIndex.
onEnd(oldIndex, newIndex) ==
    /\ grid' = InsertAt(RemoveAt(grid, oldIndex), newIndex, grid[oldIndex + 1])
    /\ LET item == IF oldIndex < Len(pageState) THEN pageState[oldIndex + 1]
                   ELSE Undefined
       IN  pageState' = InsertAt(RemoveAt(pageState, oldIndex), newIndex, item)
    /\ event' = NoEvent
    /\ UNCHANGED <<activeTool, files, hash, loader, toast, runs>>
    /\ UNCHANGED <<dropHidden, renders, pageConfig>>

push(arr, entry) == Append(arr, entry)

\* Array.prototype.unshift: the entry goes in front.
unshift(arr, entry) == <<entry>> \o arr

\* Array.prototype.slice(0, end)
slice(arr, end) == SubSeq(arr, 1, Min(end, Len(arr)))

\* "Keep only last 10"
RecentLimit == 10

\* newEntry of UI.saveRecentFile: id is Date.now(), here the number of the
\* call; the formatted size and the timestamp are left out.
newEntry(toolName, filename) ==
    [id |-> Len(saves) + 1, tool |-> toolName, filename |-> filename]

\* UI.saveRecentFile(toolName, filename, fileSize), with a localStorage that
\* holds what it is given.
saveRecentFile(toolName, filename) ==
    /\ recent' = slice(unshift(recent, newEntry(toolName, filename)), RecentLimit)
    /\ saves' = Append(saves, newEntry(toolName, filename))

\* Whether the process button takes a click: the loader is an overlay, and
\* while it is shown the interface lets no operation be started.
ProcessButtonUsable == ~loader

\* The branch of app.process for a tool id: the operation it calls, whether
\* the operation is given app.files or app.files[0], and the progress
\* callback it is given.  No branch names ppt-to-pdf, add-image,
\* header-footer or protect.
Call(op, input) == <<[op |-> op, input |-> input, cb |-> "UI.updateProgress"]>>

dispatch(tid) ==
    CASE tid = "merge"           -> Call("OrganizeTools.merge", "files")
      [] tid = "split"           -> Call("OrganizeTools.split", "files[0]")
      [] tid = "organize"        -> Call("OrganizeTools.organize", "files[0]")
      [] tid = "extract"         -> Call("OrganizeTools.extract", "files[0]")
      [] tid = "delete-pages"    -> Call("OrganizeTools.deletePages", "files[0]")
      [] tid = "rotate"          -> Call("OrganizeTools.rotateAll", "files[0]")
      [] tid = "reverse"         -> Call("OrganizeTools.reverse", "files[0]")
      [] tid = "compress"        -> Call("OptimizeTools.compress", "files[0]")
      [] tid = "repair"          -> Call("OptimizeTools.repair", "files[0]")
      [] tid = "optimize"        -> Call("OptimizeTools.optimize", "files[0]")
      [] tid = "pdf-to-word"     -> Call("ConvertFromTools.toWord", "files[0]")
      [] tid = "pdf-to-excel"    -> Call("ConvertFromTools.toExcel", "files[0]")
      [] tid = "pdf-to-ppt"      -> Call("ConvertFromTools.toPowerPoint", "files[0]")
      [] tid = "pdf-to-jpg"      -> Call("ConvertFromTools.toImages", "files[0]")
      [] tid = "pdf-to-png"      -> Call("ConvertFromTools.toImages", "files[0]")
      [] tid = "pdf-to-text"     -> Call("ConvertFromTools.toText", "files[0]")
      [] tid = "images-to-pdf"   -> Call("ConvertToTools.imagesToPDF", "files")
      [] tid = "word-to-pdf"     -> Call("ConvertToTools.wordToPDF", "files[0]")
      [] tid = "excel-to-pdf"    -> Call("ConvertToTools.excelToPDF", "files[0]")
      [] tid = "watermark"       -> Call("SecurityTools.addWatermark", "files[0]")
      [] tid = "add-text"        -> Call("EditTools.addText", "files[0]")
      [] tid = "page-numbers"    -> Call("SecurityTools.addPageNumbers", "files[0]")
      [] tid = "unlock"          -> Call("SecurityTools.unlock", "files[0]")
      [] tid = "remove-metadata" -> Call("SecurityTools.removeMetadata", "files[0]")
      [] OTHER                   -> <<>>

\* The files an operation is handed: app.files, or app.files[0] (nothing,
\* undefined, when app.files is empty by then).
Handed(calls) ==
    IF calls = <<>> THEN <<>>
    ELSE IF calls[1].input = "files" THEN files
    ELSE IF files = <<>> THEN <<>> ELSE <<files[1]>>

\* The locals resultBlob, resultFilename and multipleResults of app.process
\* as declared: null, '' and [].
NoOut == [blob |-> FALSE, filename |-> "", multiple |-> <<>>]

Run(pc, tid, calls, given) ==
    [pc |-> pc, tid |-> tid, calls |-> calls, files |-> given,
     out |-> NoOut, error |-> ""]

\* The branches of app.process that assign multipleResults.
MultiTools == {"split", "pdf-to-jpg", "pdf-to-png"}

\* resultFilename as the branch for a tool id assigns it, the timestamp
\* written ts; the branches of MultiTools leave it ''.
resultFilename(tid) ==
    CASE tid = "merge"           -> "merged_ts.pdf"
      [] tid = "organize"        -> "organized_ts.pdf"
      [] tid = "extract"         -> "extracted_ts.pdf"
      [] tid = "delete-pages"    -> "modified_ts.pdf"
      [] tid = "rotate"          -> "rotated_ts.pdf"
      [] tid = "reverse"         -> "reversed_ts.pdf"
      [] tid = "compress"        -> "compressed_ts.pdf"
      [] tid = "repair"          -> "repaired_ts.pdf"
      [] tid = "optimize"        -> "optimized_ts.pdf"
      [] tid = "pdf-to-word"     -> "converted_ts.docx"
      [] tid = "pdf-to-excel"    -> "converted_ts.xlsx"
      [] tid = "pdf-to-ppt"      -> "converted_ts.pptx"
      [] tid = "pdf-to-text"     -> "extracted_ts.txt"
      [] tid = "images-to-pdf"   -> "images_ts.pdf"
      [] tid = "word-to-pdf"     -> "converted_ts.pdf"
      [] tid = "excel-to-pdf"    -> "converted_ts.pdf"
      [] tid = "watermark"       -> "watermarked_ts.pdf"
      [] tid = "add-text"        -> "text_added_ts.pdf"
      [] tid = "page-numbers"    -> "numbered_ts.pdf"
      [] tid = "unlock"          -> "unlocked_ts.pdf"
      [] tid = "remove-metadata" -> "cleaned_ts.pdf"
      [] OTHER                   -> ""

\* An entry of the array PDFUtils.splitPDF returns.
splitOutput(i) ==
    [pageNumber |-> i, blob |-> "application/pdf", filename |-> <<"page_", i, ".pdf">>]

\* An entry of the array PDFUtils.convertPDFToImages returns: it has no
\* filename.
imageOutput(i, format) ==
    [pageNumber |-> i, dataUrl |-> "data:", blob |-> format]

\* What the array of a branch of MultiTools holds for a document of n pages.
multipleResults(tid, n) ==
    CASE tid = "split"      -> [i \in 1..n |-> splitOutput(i)]
      [] tid = "pdf-to-jpg" -> [i \in 1..n |-> imageOutput(i, "image/jpeg")]
      [] tid = "pdf-to-png" -> [i \in 1..n |-> imageOutput(i, "image/png")]
      [] OTHER              -> <<>>

\* The locals of a run once the operation of its branch returned.
Out(tid, given) ==
    IF tid \in MultiTools
       THEN [blob |-> FALSE, filename |-> "",
             multiple |-> multipleResults(tid, given[1].pageCount)]
       ELSE [blob |-> TRUE, filename |-> resultFilename(tid), multiple |-> <<>>]

\* "Handle results": showMultipleResults, showSingleResult, or neither.
showResults(out) ==
    result' = IF Len(out.multiple) > 0
                 THEN [shown |-> "multiple", outputs |-> out.multiple]
              ELSE IF out.blob
                 THEN [shown |-> "single",
                       outputs |-> <<[blob |-> TRUE, filename |-> out.filename]>>]
              ELSE result

\* The messages of the errors an operation throws.
Messages == {"Failed to parse PDF document", "file is undefined"}

\* `Error: ${error.message}`
ErrorText(message) ==
    CASE message = "Failed to parse PDF document" -> "Error: Failed to parse PDF document"
      [] message = "file is undefined"            -> "Error: file is undefined"

processClickNoLoader ==
    /\ event' = NoEvent
    /\ UNCHANGED outVars
    /\ IF Len(files) = 0
       THEN /\ toast' = Toast("No files selected", "error")
            /\ runs' = Append(runs, Run("nofiles", Null, <<>>, <<>>))
            /\ UNCHANGED <<activeTool, files, hash, loader>>
       ELSE /\ runs' = Append(runs, Run("sleep", Null, <<>>, <<>>))
            /\ UNCHANGED <<activeTool, files, hash, loader, toast>>

\* app.process, to its first await: without files a toast and nothing
\* else, with files the loader and the sleep.
processClick ==
    /\ event' = NoEvent
    /\ UNCHANGED outVars
    /\ IF Len(files) = 0
       THEN /\ toast' = Toast("No files selected", "error")
            /\ runs' = Append(runs, Run("nofiles", Null, <<>>, <<>>))
            /\ UNCHANGED <<activeTool, files, hash, loader>>
       ELSE /\ loader' = TRUE
            /\ runs' = Append(runs, Run("sleep", Null, <<>>, <<>>))
            /\ UNCHANGED <<activeTool, files, hash, toast>>

\* app.process after the sleep: the tool id is read now, the branch for it
\* calls its operation; with no branch the run goes on at once: the loader
\* is hidden, no result is shown and a recent file with no filename saved.
processDispatch(r) ==
    /\ runs[r].pc = "sleep"
    /\ LET calls == dispatch(activeTool)
       IN  IF calls = <<>>
           THEN /\ runs' = [runs EXCEPT ![r] = Run("fellthrough", activeTool, calls, <<>>)]
                /\ loader' = FALSE
                /\ showResults(NoOut)
                /\ saveRecentFile(ToolDef(activeTool).name, NoOut.filename)
           ELSE /\ runs' = [runs EXCEPT ![r] = Run("op", activeTool, calls, Handed(calls))]
                /\ UNCHANGED loader
                /\ UNCHANGED outVars
    /\ event' = NoEvent
    /\ UNCHANGED <<activeTool, files, hash, toast>>

\* The operation returned: the loader is hidden, the result shown and a
\* recent file saved, under the name of the tool active now.  An operation
\* handed undefined for its file cannot return.  Of its locals a finished
\* invocation keeps those that hold the output.
processReturn(r) ==
    /\ runs[r].pc = "op"
    /\ runs[r].calls[1].input = "files[0]" => runs[r].files # <<>>
    /\ LET out == Out(runs[r].tid, runs[r].files)
       IN  /\ runs' = [runs EXCEPT ![r] =
                          [Run("returned", Null, <<>>, <<>>) EXCEPT !.out = out]]
           /\ showResults(out)
           /\ saveRecentFile(ToolDef(activeTool).name, out.filename)
    /\ loader' = FALSE
    /\ event' = NoEvent
    /\ UNCHANGED <<activeTool, files, hash, toast>>

processThrowThenSave(r) ==
    /\ runs[r].pc = "op"
    /\ \E message \in Messages :
          /\ runs' = [runs EXCEPT ![r] =
                         [Run("failed", Null, <<>>, <<>>) EXCEPT !.error = message]]
          /\ toast' = Toast(ErrorText(message), "error")
    /\ loader' = FALSE
    /\ saveRecentFile(ToolDef(activeTool).name, "")
    /\ UNCHANGED result
    /\ event' = NoEvent
    /\ UNCHANGED <<activeTool, files, hash>>

\* The operation threw: the catch hides the loader and shows the message.
processThrow(r) ==
    /\ runs[r].pc = "op"
    /\ \E message \in Messages :
          /\ runs' = [runs EXCEPT ![r] =
                         [Run("failed", Null, <<>>, <<>>) EXCEPT !.error = message]]
          /\ toast' = Toast(ErrorText(message), "error")
    /\ loader' = FALSE
    /\ UNCHANGED outVars
    /\ event' = NoEvent
    /\ UNCHANGED <<activeTool, files, hash>>


(***************************************************************************)
(* The page-organising operations: PDFUtils.mergePDFs, PDFUtils.splitPDF   *)
(* and OrganizeTools.deletePages.                                          *)
(*                                                                         *)
(* A file is [pageCount, loads]: the pages of the document it holds and    *)
(* whether PDFDocument.load accepts it.  A page of a document under        *)
(* construction is [file, index]: the position in the array of files of    *)
(* the file it was copied from (from 1) and its 0-based page index there.  *)
(***************************************************************************)
\* The page addPage() creates when called without a page.
BlankPage == [file |-> 0, index |-> 0]

\* pdf.getPageIndices(): 0 .. pageCount - 1.
getPageIndices(file) == [p \in 1..file.pageCount |-> p - 1]

\* newPdf.copyPages(src, indices), src being the file at position k.
copyPages(k, indices) ==
    [j \in 1..Len(indices) |-> [file |-> k, index |-> indices[j]]]

addPageInFront(pdf, page) == <<page>> \o pdf

\* pdf.addPage(page): the page becomes the last one.
addPage(pdf, page) == Append(pdf, page)

\* copiedPages.forEach(page => mergedPdf.addPage(page))
RECURSIVE forEachAddPage(_, _)
forEachAddPage(pdf, copiedPages) ==
    IF copiedPages = <<>> THEN pdf
    ELSE forEachAddPage(addPage(pdf, Head(copiedPages)), Tail(copiedPages))

\* pdf.save(): pdf-lib adds a blank page to a document without pages before
\* it serialises it (the option addDefaultPage, true unless given).
save(pdf) == IF pdf = <<>> THEN <<BlankPage>> ELSE pdf

\* A report to progressCallback: the percent is (num / den) * 100.
Report(num, den) == [num |-> num, den |-> den]

\* String(n) of a number n >= 0, as a sequence of characters.
RECURSIVE NumToChars(_)
NumToChars(n) ==
    LET d == CHOOSE c \in DigitChars : DigitVal(c) = n % 10
    IN  IF n < 10 THEN <<d>> ELSE Append(NumToChars(n \div 10), d)

deleteSetNotShifted(pageNumbersToDelete) ==
    {ParseInt(NumToChars(pageNumbersToDelete[j])) :
        j \in 1..Len(pageNumbersToDelete)}

\* new Set(pageNumbersToDelete.map(n => parseInt(n) - 1))
deleteSet(pageNumbersToDelete) ==
    {ParseInt(NumToChars(pageNumbersToDelete[j])) - 1 :
        j \in 1..Len(pageNumbersToDelete)}

splitEntryFromZero(i) ==
    [pageNumber |-> i,
     blob       |-> save(addPage(<<>>, copyPages(1, <<i>>)[1])),
     filename   |-> "page_" \o ToString(i) \o ".pdf"]

\* The entry splitPDF pushes in iteration i.
splitEntry(i) ==
    [pageNumber |-> i + 1,
     blob       |-> save(addPage(<<>>, copyPages(1, <<i>>)[1])),
     filename   |-> "page_" \o ToString(i + 1) \o ".pdf"]

\* mergePDFs: one iteration of `for (const file of files)`.
mergeFile ==
    /\ oOp = "merge"
    /\ oPc = "loop"
    /\ oI < Len(oFiles)
    /\ LET file == oFiles[oI + 1]
       IN  /\ oProcessed' = oProcessed + 1
           /\ oProgress' = Append(oProgress, Report(oProcessed + 1, Len(oFiles)))
           /\ IF file.loads
                 THEN /\ oNewPdf' = forEachAddPage(oNewPdf,
                                        copyPages(oI + 1, getPageIndices(file)))
                      /\ oI' = oI + 1
                      /\ oPc' = "loop"
                 ELSE /\ oPc' = "threw"
                      /\ UNCHANGED <<oNewPdf, oI>>
    /\ UNCHANGED <<oOp, oFiles, oArg, oSplitPDFs, oResult>>

\* mergePDFs: return await mergedPdf.save()
mergeSave ==
    /\ oOp = "merge"
    /\ oPc = "loop"
    /\ oI = Len(oFiles)
    /\ oResult' = save(oNewPdf)
    /\ oPc' = "returned"
    /\ UNCHANGED <<oOp, oFiles, oArg, oI, oProcessed, oNewPdf, oSplitPDFs, oProgress>>

\* splitPDF and deletePages: PDFDocument.load(arrayBuffer) of the one file.
loadSource(op) ==
    /\ oOp = op
    /\ oPc = "load"
    /\ oPc' = IF oFiles[1].loads THEN "loop" ELSE "threw"
    /\ UNCHANGED <<oOp, oFiles, oArg, oI, oProcessed, oNewPdf, oSplitPDFs,
                   oProgress, oResult>>

\* splitPDF: one iteration of `for (let i = 0; i < pageCount; i++)`.
splitPage ==
    /\ oOp = "split"
    /\ oPc = "loop"
    /\ oI < oFiles[1].pageCount
    /\ oProgress' = Append(oProgress, Report(oI + 1, oFiles[1].pageCount))
    /\ oSplitPDFs' = Append(oSplitPDFs, splitEntry(oI))
    /\ oI' = oI + 1
    /\ UNCHANGED <<oOp, oFiles, oArg, oPc, oProcessed, oNewPdf, oResult>>

\* splitPDF: return splitPDFs
splitReturn ==
    /\ oOp = "split"
    /\ oPc = "loop"
    /\ oI = oFiles[1].pageCount
    /\ oResult' = oSplitPDFs
    /\ oPc' = "returned"
    /\ UNCHANGED <<oOp, oFiles, oArg, oI, oProcessed, oNewPdf, oSplitPDFs, oProgress>>

\* deletePages: one iteration of `for (let i = 0; i < totalPages; i++)`.
deletePagesIteration ==
    /\ oOp = "deletePages"
    /\ oPc = "loop"
    /\ oI < oFiles[1].pageCount
    /\ IF oI \notin deleteSet(oArg)
          THEN /\ oProcessed' = oProcessed + 1
               /\ oProgress' = Append(oProgress,
                      Report(oProcessed + 1,
                             oFiles[1].pageCount - Cardinality(deleteSet(oArg))))
               /\ oNewPdf' = addPage(oNewPdf, copyPages(1, <<oI>>)[1])
          ELSE UNCHANGED <<oProcessed, oProgress, oNewPdf>>
    /\ oI' = oI + 1
    /\ UNCHANGED <<oOp, oFiles, oArg, oPc, oSplitPDFs, oResult>>

\* deletePages: return await newPdf.save()
deleteSave ==
    /\ oOp = "deletePages"
    /\ oPc = "loop"
    /\ oI = oFiles[1].pageCount
    /\ oResult' = save(oNewPdf)
    /\ oPc' = "returned"
    /\ UNCHANGED <<oOp, oFiles, oArg, oI, oProcessed, oNewPdf, oSplitPDFs, oProgress>>

\* n => parseInt(n) - 1 of extract, n a number >= 0 or NaN.  NaN - 1 is NaN;
\* the 0-based index of page number 0 is -1, which the filter drops as it
\* drops NaN.
toIndex(n) ==
    IF n = NaN THEN NaN
    ELSE LET v == ParseInt(NumToChars(n)) IN IF v = NaN THEN NaN ELSE v - 1

\* .filter(n => n >= 0 && n < srcPdf.getPageCount()); NaN >= 0 is false.
inDocument(n, pageCount) == n # NaN /\ n >= 0 /\ n < pageCount

\* validPages of extract: map, filter, sort((a, b) => a - b).
validPages(pageNumbers, pageCount) ==
    SortLinear(<<>>,
        SelectSeq([j \in 1..Len(pageNumbers) |-> toIndex(pageNumbers[j])],
                  LAMBDA n : inDocument(n, pageCount)))

\* extract: one iteration of `for (let i = 0; i < validPages.length; i++)`.
extractPage ==
    /\ oOp = "extract"
    /\ oPc = "loop"
    /\ LET valid == validPages(oArg, oFiles[1].pageCount)
       IN  /\ oI < Len(valid)
           /\ oProgress' = Append(oProgress, Report(oI + 1, Len(valid)))
           /\ oNewPdf' = addPage(oNewPdf, copyPages(1, <<valid[oI + 1]>>)[1])
    /\ oI' = oI + 1
    /\ UNCHANGED <<oOp, oFiles, oArg, oPc, oProcessed, oSplitPDFs, oResult>>

\* extract: return await newPdf.save()
extractSave ==
    /\ oOp = "extract"
    /\ oPc = "loop"
    /\ oI = Len(validPages(oArg, oFiles[1].pageCount))
    /\ oResult' = save(oNewPdf)
    /\ oPc' = "returned"
    /\ UNCHANGED <<oOp, oFiles, oArg, oI, oProcessed, oNewPdf, oSplitPDFs, oProgress>>

\* page.getRotation().angle of a page of the source file: the /Rotate entry
\* of the page, 0 without one.
getRotation(file) == IF "angle" \in DOMAIN file THEN file.angle ELSE 0

rotatedTo(currentRotation, rotationDegrees) == rotationDegrees

\* degrees(currentRotation + rotationDegrees) of rotateAll and organize.
rotated(currentRotation, rotationDegrees) == currentRotation + rotationDegrees

\* page.setRotation(angle)
setRotation(page, angle) ==
    [file |-> page.file, index |-> page.index, rotation |-> angle]

\* The array pageConfig of organize: the one UI.pageState refers to, or the
\* one it referred to when the call was made.
PageConfig == IF pageConfig.live THEN pageState ELSE pageConfig.arr

\* organize: one iteration of `for (let i = 0; i < pageConfig.length; i++)`.
\* Reading originalIndex of an undefined entry throws, and so does copying
\* a page the source does not have.
organizePage ==
    /\ oOp = "organize"
    /\ oPc = "loop"
    /\ oI < Len(PageConfig)
    /\ oProgress' = Append(oProgress, Report(oI + 1, Len(PageConfig)))
    /\ LET config == PageConfig[oI + 1]
       IN  IF \/ IsUndefined(config)
              \/ config.originalIndex \notin 0..(oFiles[1].pageCount - 1)
              THEN /\ oPc' = "threw"
                   /\ pageConfig' = NoConfig
                   /\ UNCHANGED <<oNewPdf, oI>>
              ELSE LET page == copyPages(1, <<config.originalIndex>>)[1]
                   IN  /\ oNewPdf' = addPage(oNewPdf,
                              IF config.rotation # 0
                                 THEN setRotation(page,
                                        rotated(getRotation(oFiles[1]), config.rotation))
                                 ELSE page)
                       /\ oI' = oI + 1
                       /\ UNCHANGED <<oPc, pageConfig>>
    /\ UNCHANGED <<oOp, oFiles, oArg, oProcessed, oSplitPDFs, oResult>>
    /\ UNCHANGED <<dropHidden, grid, pageState, renders>>

\* organize: return await newPdf.save()
organizeSave ==
    /\ oOp = "organize"
    /\ oPc = "loop"
    /\ oI >= Len(PageConfig)
    /\ oResult' = save(oNewPdf)
    /\ oPc' = "returned"
    /\ pageConfig' = NoConfig
    /\ UNCHANGED <<oOp, oFiles, oArg, oI, oProcessed, oNewPdf, oSplitPDFs, oProgress>>
    /\ UNCHANGED <<dropHidden, grid, pageState, renders>>

\* The branch of app.process for delete-pages: UI.pageState
\* .filter((_, i) => i % 2 === 0).map(p => p.originalIndex + 1).
pagesToDelete(state) ==
    [j \in 1..((Len(state) + 1) \div 2) |-> state[2 * j - 1].originalIndex + 1]

\* app.process calling organize or deletePages for the tool tid with
\* app.files[0]: organize is handed the array UI.pageState refers to,
\* deletePages the page numbers computed from it.  Without a file the
\* operation throws on reading it; an undefined entry among those mapped
\* for deletePages throws before the call.
startOperation(tid) ==
    /\ oOp' = IF tid = "organize" THEN "organize" ELSE "deletePages"
    /\ oFiles' = IF files = <<>> THEN <<>> ELSE <<files[1]>>
    /\ oI' = 0
    /\ oProcessed' = 0
    /\ oNewPdf' = <<>>
    /\ oSplitPDFs' = <<>>
    /\ oProgress' = <<>>
    /\ oResult' = <<>>
    /\ IF tid = "organize"
          THEN /\ oArg' = <<>>
               /\ oPc' = IF files = <<>> THEN "threw" ELSE "load"
               /\ pageConfig' = IF files = <<>> THEN NoConfig
                                ELSE [live |-> TRUE, arr |-> <<>>]
          ELSE /\ UNCHANGED pageConfig
               /\ IF \E j \in 1..Len(pageState) : j % 2 = 1 /\ IsUndefined(pageState[j])
                     THEN oArg' = <<>> /\ oPc' = "threw"
                     ELSE /\ oArg' = pagesToDelete(pageState)
                          /\ oPc' = IF files = <<>> THEN "threw" ELSE "load"

(***************************************************************************)
(* Operations whose items can fail one by one: OptimizeTools.repair        *)
(* (src/unnamed/part_002), OrganizeTools.reverse and                       *)
(* ConvertToTools.imagesToPDF (src/unnamed/part_001).                      *)
(*                                                                         *)
(* A PDF file is [pageCount, loads, bad]: bad holds the 0-based indices of *)
(* the pages copyPages throws on.  An image file is [type, embeds]:        *)
(* whether embedJpg or embedPng accepts its bytes.                         *)
(***************************************************************************)
\* A report to progressCallback of a percent written out in the code, and
\* of base + (num / den) * span.
Fixed(percent) == [percent |-> percent]

Scaled(base, span, num, den) == [base |-> base, span |-> span, num |-> num, den |-> den]

\* The message of the error PDFDocument.load throws.
LoadMessage == "Failed to parse PDF document"

\* `Repair failed: ${error.message}`
RepairFailed(message) == "Repair failed: " \o message

\* Whether copyPages(srcPdf, [i]) throws.
copyFails(file, i) == i \in file.bad

\* repair, to its loop: the file is read and loaded; an error of the load is
\* caught by the outer catch and thrown on under the message of repair.
repairLoad ==
    /\ oOp = "repair"
    /\ oPc = "load"
    /\ IF oFiles[1].loads
          THEN /\ oProgress' = oProgress \o <<Fixed(20), Fixed(50)>>
               /\ oPc' = "loop"
               /\ UNCHANGED oError
          ELSE /\ oProgress' = Append(oProgress, Fixed(20))
               /\ oPc' = "threw"
               /\ oError' = RepairFailed(LoadMessage)
    /\ UNCHANGED <<oOp, oFiles, oArg, oI, oProcessed, oNewPdf, oSplitPDFs, oResult>>

repairPageFatal ==
    /\ oOp = "repair"
    /\ oPc = "loop"
    /\ oI < oFiles[1].pageCount
    /\ oProgress' = Append(oProgress, Scaled(50, 50, oI + 1, oFiles[1].pageCount))
    /\ IF copyFails(oFiles[1], oI)
          THEN /\ oPc' = "threw"
               /\ oError' = RepairFailed("page error")
               /\ UNCHANGED <<oNewPdf, oI>>
          ELSE /\ oNewPdf' = addPage(oNewPdf, copyPages(1, <<oI>>)[1])
               /\ oI' = oI + 1
               /\ UNCHANGED <<oPc, oError>>
    /\ UNCHANGED <<oOp, oFiles, oArg, oProcessed, oSplitPDFs, oResult>>

\* repair: one iteration of `for (let i = 0; i < pageCount; i++)`; the
\* inner catch warns of a page that cannot be copied and the loop goes on.
repairPage ==
    /\ oOp = "repair"
    /\ oPc = "loop"
    /\ oI < oFiles[1].pageCount
    /\ oProgress' = Append(oProgress, Scaled(50, 50, oI + 1, oFiles[1].pageCount))
    /\ oNewPdf' = IF copyFails(oFiles[1], oI)
                     THEN oNewPdf
                     ELSE addPage(oNewPdf, copyPages(1, <<oI>>)[1])
    /\ oI' = oI + 1
    /\ UNCHANGED <<oOp, oFiles, oArg, oPc, oProcessed, oSplitPDFs, oResult, oError>>

\* repair after its loop: without a page the error of line 71, caught and
\* thrown on by the outer catch; else the saved document.
repairEnd ==
    /\ oOp = "repair"
    /\ oPc = "loop"
    /\ oI = oFiles[1].pageCount
    /\ IF Len(oNewPdf) = 0
          THEN /\ oPc' = "threw"
               /\ oError' = RepairFailed("No valid pages found in PDF")
               /\ UNCHANGED oResult
          ELSE /\ oPc' = "returned"
               /\ oResult' = save(oNewPdf)
               /\ UNCHANGED oError
    /\ UNCHANGED <<oOp, oFiles, oArg, oI, oProcessed, oNewPdf, oSplitPDFs, oProgress>>

\* reverse: the load of the file, nothing caught.
reverseLoad ==
    /\ oOp = "reverse"
    /\ oPc = "load"
    /\ IF oFiles[1].loads
          THEN /\ oPc' = "loop"
               /\ oI' = oFiles[1].pageCount - 1
               /\ UNCHANGED oError
          ELSE /\ oPc' = "threw"
               /\ oError' = LoadMessage
               /\ UNCHANGED oI
    /\ UNCHANGED <<oOp, oFiles, oArg, oProcessed, oNewPdf, oSplitPDFs, oProgress, oResult>>

\* reverse: one iteration of `for (let i = totalPages - 1; i >= 0; i--)`;
\* a page that cannot be copied ends the call with its error.
reversePage ==
    /\ oOp = "reverse"
    /\ oPc = "loop"
    /\ oI >= 0
    /\ oProgress' = Append(oProgress,
                        Report(oFiles[1].pageCount - oI, oFiles[1].pageCount))
    /\ IF copyFails(oFiles[1], oI)
          THEN /\ oPc' = "threw"
               /\ oError' = "page error"
               /\ UNCHANGED <<oNewPdf, oI>>
          ELSE /\ oNewPdf' = addPage(oNewPdf, copyPages(1, <<oI>>)[1])
               /\ oI' = oI - 1
               /\ UNCHANGED <<oPc, oError>>
    /\ UNCHANGED <<oOp, oFiles, oArg, oProcessed, oSplitPDFs, oResult>>

\* reverse: return await newPdf.save()
reverseSave ==
    /\ oOp = "reverse"
    /\ oPc = "loop"
    /\ oI < 0
    /\ oResult' = save(oNewPdf)
    /\ oPc' = "returned"
    /\ UNCHANGED <<oOp, oFiles, oArg, oI, oProcessed, oNewPdf, oSplitPDFs, oProgress, oError>>

\* The page imagesToPDF adds for the image of the file at position k.
ImagePage(k) == [file |-> k, index |-> 0]

\* imagesToPDF: one iteration of `for (let i = 0; i < files.length; i++)`.
\* An image that cannot be embedded is warned of and left out (continue);
\* a file of a type that is neither JPEG nor PNG is embedded by neither
\* branch and adds no page.
imagesToPDFItem ==
    /\ oOp = "imagesToPDF"
    /\ oPc = "loop"
    /\ oI < Len(oFiles)
    /\ oProgress' = Append(oProgress, Report(oI + 1, Len(oFiles)))
    /\ LET file == oFiles[oI + 1]
       IN  oNewPdf' = IF file.type \in {MimeJpeg, MimeJpg, MimePng} /\ file.embeds
                         THEN addPage(oNewPdf, ImagePage(oI + 1))
                         ELSE oNewPdf
    /\ oI' = oI + 1
    /\ UNCHANGED <<oOp, oFiles, oArg, oPc, oProcessed, oSplitPDFs, oResult, oError>>

\* imagesToPDF: return await pdfDoc.save()
imagesToPDFSave ==
    /\ oOp = "imagesToPDF"
    /\ oPc = "loop"
    /\ oI = Len(oFiles)
    /\ oResult' = save(oNewPdf)
    /\ oPc' = "returned"
    /\ UNCHANGED <<oOp, oFiles, oArg, oI, oProcessed, oNewPdf, oSplitPDFs, oProgress, oError>>

(***************************************************************************)
(* SecurityTools.addPassword and SecurityTools.removeMetadata              *)
(* (src/ultipdf/js/tools/security.js).                                     *)
(*                                                                         *)
(* A document is its pages, whether PDFDocument.load accepts it, and the   *)
(* entries title, author, subject, keywords, creator and producer of its   *)
(* info dictionary (the dates are left out).  A page is [file, index,      *)
(* drawn]: where it comes from and the texts drawn on it.                  *)
(***************************************************************************)
\* An entry the info dictionary does not have.
NoEntry == "(none)"

\* The name pdf-lib writes as Producer, and as Creator where there is none.
PdfLib == "pdf-lib (https://github.com/Hopding/pdf-lib)"

\* PDFDocument.load(arrayBuffer) of a document that loads: updateMetadata
\* is on unless turned off, and stamps the info dictionary.
load(doc) ==
    [doc EXCEPT !.producer = PdfLib,
                !.creator = IF @ = NoEntry THEN PdfLib ELSE @]

\* page.drawText(text, options)
drawText(page, text) == [page EXCEPT !.drawn = Append(@, text)]

\* pdfDoc.save() of a document: its pages as save leaves them.
saveDoc(doc) == [doc EXCEPT !.pages = save(@)]

\* new Blob([pdfBytes], { type: 'application/pdf' })
Blob(bytes) == [type |-> "application/pdf", bytes |-> bytes]

addPasswordWithKey(doc, password) ==
    LET pdfDoc == load(doc)
        marked == IF Len(pdfDoc.pages) > 0
                     THEN [pdfDoc EXCEPT !.pages[1] = drawText(@, password)]
                     ELSE pdfDoc
    IN  Blob(saveDoc(marked))

\* addPassword(file, password, progressCallback) on a file that loads: the
\* notice is drawn on the first page, if there is one; the password is not
\* read.
addPassword(doc, password) ==
    LET pdfDoc == load(doc)
        marked == IF Len(pdfDoc.pages) > 0
                     THEN [pdfDoc EXCEPT !.pages[1] = drawText(@, "Password Required")]
                     ELSE pdfDoc
    IN  Blob(saveDoc(marked))

removeMetadataKeepsSubject(doc) ==
    LET pdfDoc == load(doc)
        cleared == [pdfDoc EXCEPT !.title = "", !.author = "",
                                  !.creator = "", !.producer = "",
                                  !.keywords = <<>>]
    IN  Blob(saveDoc(cleared))

\* removeMetadata(file, progressCallback) on a file that loads.
removeMetadata(doc) ==
    LET pdfDoc == load(doc)
        cleared == [pdfDoc EXCEPT !.title = "", !.author = "", !.subject = "",
                                  !.creator = "", !.producer = "",
                                  !.keywords = <<>>]
    IN  Blob(saveDoc(cleared))

\* A call of one of the two, as the log keeps it: the operation, the
\* password given, the document handed in, and the blob returned or the
\* error thrown by the load.
Logged(op, password, doc) ==
    [op |-> op, password |-> password, in |-> doc,
     threw |-> ~doc.loads,
     out |-> IF ~doc.loads THEN Blob(NoDoc)
             ELSE IF op = "addPassword" THEN addPassword(doc, password)
             ELSE removeMetadata(doc)]

(***************************************************************************)
(* The router (src/unnamed/part_000:578-592) and app.init's use of it.     *)
(***************************************************************************)
\* window.location.hash.replace('#', '') || 'home'
hashOrHome == IF hash = "" THEN "home" ELSE hash

\* app.router.handle: every view loses the class active; the view the hash
\* names gets it, and without such a view the router goes to 'home'.
handle ==
    /\ active' = IF hashOrHome \in views THEN {hashOrHome} ELSE {}
    /\ hash' = IF hashOrHome \in views THEN hash ELSE "home"
    /\ handled' = [init |-> TRUE, pending |-> hash' # hash]
    /\ UNCHANGED views

\* Whether a hashchange event waits to be delivered: the hash has changed
\* since the handler was called last.
HashChangePending == handled.init /\ handled.pending

\* The hash is set: a hashchange event follows when it is a new one.
hashChanges == handled' = [handled EXCEPT !.pending = @ \/ hash' # hash]

\* The ids of the views of the document.  The page is not part of the
\* sources: the specification names a dashboard and a workspace view, the
\* router a home view.
DocViews ==
    { {"dashboard", "workspace"}, {"home", "workspace"},
      {"home", "dashboard", "workspace"} }

(***************************************************************************)
(* UI.downloadAsZip (src/ultipdf/js/ui.js:291-307), called by the button   *)
(* 'Download All as ZIP' of the result area.                               *)
(***************************************************************************)
\* downloadAsZip, to its await: the files are added to the archive, the
\* loader is shown and the archive is being generated.
downloadAsZip ==
    /\ zip' = "generate"
    /\ loader' = TRUE
    /\ event' = NoEvent
    /\ UNCHANGED <<activeTool, files, hash, toast, runs>>

\* zip.generateAsync resolved: the loader is hidden, the archive handed to
\* the browser and the toast shown.
zipGenerated ==
    /\ zip = "generate"
    /\ zip' = "done"
    /\ loader' = FALSE
    /\ toast' = Toast("ZIP archive downloaded", "success")
    /\ event' = NoEvent
    /\ UNCHANGED <<activeTool, files, hash, runs>>

\* zip.generateAsync rejected: nothing catches it, and the rest of
\* downloadAsZip does not run.
zipFailed ==
    /\ zip = "generate"
    /\ zip' = "failed"
    /\ event' = NoEvent
    /\ UNCHANGED <<activeTool, files, hash, loader, toast, runs>>
(***************************************************************************)
(* SpecParse: parsePageRange applied to every bounded input expression     *)
(* and to the expressions the documentation gives.                         *)
(***************************************************************************)
ParseAlphabet == {"1", "2", "3", ",", "-", "x", " "}

\* Every number written in s is at most MaxNum.
RECURSIVE NumbersBounded(_, _)
NumbersBounded(s, acc) ==
    IF s = <<>> THEN TRUE
    ELSE IF Head(s) \in DigitChars
         THEN LET v == acc * 10 + DigitVal(Head(s))
              IN  v <= MaxNum /\ NumbersBounded(Tail(s), v)
         ELSE NumbersBounded(Tail(s), 0)

ExampleInputs ==
    { <<"1", ",", "3", ",", "5", "-", "7">>,
      <<"2", "-", "2">>,
      <<"1", ",", "1", ",", "2">>,
      <<"3", ",", "x", ",", "1">>,
      <<"1", ",", "7", "-", "5", ",", "2">>,
      <<"3", ",", "2", ",", "x", ",", "1">> }

ParseInputs ==
    {s \in SeqsUpTo(ParseAlphabet, MaxLen) : NumbersBounded(s, 0)}
        \cup ExampleInputs

ParseInit ==
    /\ pInput \in ParseInputs
    /\ pPages = <<>>
    /\ pPc = "call"
    /\ ValidIdle
    /\ AppIdle
    /\ OrgIdle
    /\ UiIdle
    /\ RotIdle
    /\ OutIdle
    /\ OtherIdle

ParseCall ==
    /\ pPc = "call"
    /\ \E r \in parsePageRange(pInput) : pPages' = r
    /\ pPc' = "done"
    /\ UNCHANGED <<pInput, validVars, appVars, uiVars, orgVars, rotVars, outVars, otherVars>>

ParseNext == ParseCall

SpecParse == ParseInit /\ [][ParseNext]_vars

(***************************************************************************)
(* SpecValid: the three validators applied to one file, of any declared     *)
(* type and any name.                                                      *)
(***************************************************************************)
FileTypes ==
    {MimePdf, MimeJpeg, MimePng, MimeJpg, MimeDocx, MimeDoc, MimeXlsx, MimeXls,
     MimePptx, MimePpt, "", "text/plain"}

FileNames ==
    { <<"a", ".", "p", "d", "f">>,
      <<"a", ".", "P", "D", "F">>,
      <<"a", ".", "p", "n", "g">>,
      <<"a", ".", "P", "N", "G">>,
      <<"a", ".", "j", "p", "g">>,
      <<"a", ".", "d", "o", "c", "x">>,
      <<"a", ".", "x", "l", "s", "x">>,
      <<"a", ".", "p", "p", "t", "x">>,
      <<"a", ".", "p", "d", "f", ".", "p", "n", "g">>,
      <<"p", "d", "f">>,
      <<"a">> }

AllFiles == [type : FileTypes, name : FileNames]

ValidInit ==
    /\ vFile \in AllFiles
    /\ vRes = NoVerdict
    /\ vPc = "call"
    /\ ParseIdle
    /\ AppIdle
    /\ OrgIdle
    /\ UiIdle
    /\ RotIdle
    /\ OutIdle
    /\ OtherIdle

ValidateCall ==
    /\ vPc = "call"
    /\ vRes' = [pdf   |-> isValidPDF(vFile),
                image |-> isValidImage(vFile),
                doc   |-> isValidDoc(vFile)]
    /\ vPc' = "done"
    /\ UNCHANGED <<vFile, parseVars, appVars, uiVars, orgVars, rotVars, outVars, otherVars>>

ValidNext == ValidateCall

SpecValid == ValidInit /\ [][ValidNext]_vars

(***************************************************************************)
(* SpecApp: the handlers of the controller, run by a user who selects      *)
(* tools, offers files, removes them, resets and clicks process, with the  *)
(* continuations of app.process in between.  The user moves between the    *)
(* tools of ToolsPicked: one tool of each kind of file check and of each   *)
(* kind of dispatch.                                                       *)
(*                                                                         *)
(* SpecTools: the same handlers with every tool of the registry, the user  *)
(* staying with the tool selected first.                                   *)
(***************************************************************************)
ToolsPicked ==
    {"merge", "pdf-to-word", "images-to-pdf", "protect"}

FilePdf  == [type |-> MimePdf,  name |-> <<"a", ".", "p", "d", "f">>,
             pageCount |-> 1, loads |-> TRUE]
FileDocx == [type |-> MimeDocx, name |-> <<"a", ".", "d", "o", "c", "x">>,
             pageCount |-> 0, loads |-> FALSE]
FileXlsx == [type |-> MimeXlsx, name |-> <<"a", ".", "x", "l", "s", "x">>,
             pageCount |-> 0, loads |-> FALSE]
FilePptx == [type |-> MimePptx, name |-> <<"a", ".", "p", "p", "t", "x">>,
             pageCount |-> 0, loads |-> FALSE]
FilePng  == [type |-> MimePng,  name |-> <<"a", ".", "p", "n", "g">>,
             pageCount |-> 0, loads |-> FALSE]

\* The file lists a change or drop event brings.
FileLists ==
    { <<>>, <<FilePdf>>, <<FileDocx>>, <<FileXlsx>>, <<FilePptx>>, <<FilePng>>,
      <<FilePdf, FilePdf>>, <<FilePng, FilePng>>, <<FilePng, FilePdf>> }

AppInit ==
    /\ AppIdle
    /\ ParseIdle
    /\ ValidIdle
    /\ OrgIdle
    /\ UiIdle
    /\ RotIdle
    /\ OutIdle
    /\ OtherIdle

SelectTool ==
    /\ \E id \in ToolsPicked : selectTool(id)
    /\ UNCHANGED <<parseVars, validVars, orgVars, rotVars, recent, saves, otherVars>>

Reset ==
    /\ reset
    /\ UNCHANGED <<parseVars, validVars, orgVars, rotVars, recent, saves, otherVars>>

\* A change or drop event; the drop zone takes them while it is shown.
HandleFiles ==
    /\ ~dropHidden
    /\ Len(renders) < MaxRenders
    /\ \E fileList \in FileLists : handleFiles(fileList)
    /\ UNCHANGED <<parseVars, validVars, orgVars, rotVars, outVars, otherVars>>

\* A click on the remove button of a file card, the editor area shown.
RemoveFile ==
    /\ dropHidden
    /\ result.shown = "none"
    /\ \E pos \in 1..Len(grid) :
          /\ grid[pos].kind = "file"
          /\ removeFile(grid[pos].index)
    /\ UNCHANGED <<parseVars, validVars, orgVars, rotVars, recent, saves, otherVars>>

\* A click on the process button.
ProcessClick ==
    /\ Len(runs) < MaxRuns
    /\ ProcessButtonUsable
    /\ processClick
    /\ UNCHANGED <<parseVars, validVars, uiVars, orgVars, rotVars, otherVars>>

ProcessDispatch ==
    /\ \E r \in 1..Len(runs) : processDispatch(r)
    /\ UNCHANGED <<parseVars, validVars, uiVars, orgVars, rotVars, otherVars>>

ProcessReturn ==
    /\ \E r \in 1..Len(runs) : processReturn(r)
    /\ UNCHANGED <<parseVars, validVars, uiVars, orgVars, rotVars, otherVars>>

ProcessThrow ==
    /\ \E r \in 1..Len(runs) : processThrow(r)
    /\ UNCHANGED <<parseVars, validVars, uiVars, orgVars, rotVars, otherVars>>

AppNext ==
    \/ SelectTool
    \/ Reset
    \/ HandleFiles
    \/ RemoveFile
    \/ ProcessClick
    \/ ProcessDispatch
    \/ ProcessReturn
    \/ ProcessThrow

SpecApp == AppInit /\ [][AppNext]_vars

SelectFirstTool ==
    /\ activeTool = Null
    /\ \E id \in ToolIds : selectTool(id)
    /\ UNCHANGED <<parseVars, validVars, orgVars, rotVars, recent, saves, otherVars>>

RenderLoad ==
    /\ \E k \in 1..Len(renders) : renderLoad(k)
    /\ UNCHANGED <<parseVars, validVars, orgVars, rotVars, outVars, otherVars>>

RenderPage ==
    /\ \E k \in 1..Len(renders) : renderPage(k)
    /\ UNCHANGED <<parseVars, validVars, orgVars, rotVars, outVars, otherVars>>

RenderDone ==
    /\ \E k \in 1..Len(renders) : renderDone(k)
    /\ UNCHANGED <<parseVars, validVars, orgVars, rotVars, outVars, otherVars>>

ToolsNext ==
    \/ SelectFirstTool
    \/ Reset
    \/ HandleFiles
    \/ RemoveFile
    \/ ProcessClick
    \/ ProcessDispatch
    \/ ProcessReturn
    \/ ProcessThrow
    \/ RenderLoad
    \/ RenderPage
    \/ RenderDone

SpecTools == AppInit /\ [][ToolsNext]_vars


(***************************************************************************)
(* SpecOrg: one call of merge, split or deletePages on bounded files, a    *)
(* step for the load and for each iteration of the loop.                   *)
(***************************************************************************)
\* The files a user can hand over: documents of 1..MaxPages pages, some of
\* which the library cannot load.
OrgFiles == [pageCount : 1..MaxPages, loads : BOOLEAN]

\* The arrays pageNumbersToDelete: 1-based page numbers, repeated ones and
\* ones outside the document among them.
DeleteArgs == SeqsUpTo(0..(MaxPages + 1), MaxDel)

\* The arrays pageNumbers of extract: as DeleteArgs, and NaN, which
\* parsePageRange leaves in its result for a malformed token.
ExtractArgs == SeqsUpTo((0..(MaxPages + 1)) \cup {NaN}, MaxDel)

OrgCalls ==
    {[op |-> "merge", files |-> fs, arg |-> <<>>] :
        fs \in SeqsUpTo(OrgFiles, MaxFiles) \ {<<>>}}
    \cup {[op |-> "split", files |-> <<f>>, arg |-> <<>>] : f \in OrgFiles}
    \cup {[op |-> "deletePages", files |-> <<f>>, arg |-> a] :
            f \in OrgFiles, a \in DeleteArgs}
    \cup {[op |-> "extract", files |-> <<f>>, arg |-> a] :
            f \in OrgFiles, a \in ExtractArgs}

OrgInit ==
    /\ \E c \in OrgCalls :
          /\ oOp = c.op
          /\ oFiles = c.files
          /\ oArg = c.arg
          /\ oPc = IF c.op = "merge" THEN "loop" ELSE "load"
    /\ oI = 0
    /\ oProcessed = 0
    /\ oNewPdf = <<>>
    /\ oSplitPDFs = <<>>
    /\ oProgress = <<>>
    /\ oResult = <<>>
    /\ ParseIdle
    /\ ValidIdle
    /\ AppIdle
    /\ UiIdle
    /\ RotIdle
    /\ OutIdle
    /\ OtherIdle

MergeFile == mergeFile /\ UNCHANGED <<parseVars, validVars, appVars, uiVars, rotVars, outVars, otherVars>>

MergeSave == mergeSave /\ UNCHANGED <<parseVars, validVars, appVars, uiVars, rotVars, outVars, otherVars>>

SplitLoad == loadSource("split") /\ UNCHANGED <<parseVars, validVars, appVars, uiVars, rotVars, outVars, otherVars>>

SplitPage == splitPage /\ UNCHANGED <<parseVars, validVars, appVars, uiVars, rotVars, outVars, otherVars>>

SplitReturn == splitReturn /\ UNCHANGED <<parseVars, validVars, appVars, uiVars, rotVars, outVars, otherVars>>

DeleteLoad == loadSource("deletePages") /\ UNCHANGED <<parseVars, validVars, appVars, uiVars, rotVars, outVars, otherVars>>

DeletePage == deletePagesIteration /\ UNCHANGED <<parseVars, validVars, appVars, uiVars, rotVars, outVars, otherVars>>

DeleteSave == deleteSave /\ UNCHANGED <<parseVars, validVars, appVars, uiVars, rotVars, outVars, otherVars>>

ExtractLoad == loadSource("extract") /\ UNCHANGED <<parseVars, validVars, appVars, uiVars, rotVars, outVars, otherVars>>

ExtractPage == extractPage /\ UNCHANGED <<parseVars, validVars, appVars, uiVars, rotVars, outVars, otherVars>>

ExtractSave == extractSave /\ UNCHANGED <<parseVars, validVars, appVars, uiVars, rotVars, outVars, otherVars>>

OrgNext ==
    \/ MergeFile
    \/ MergeSave
    \/ SplitLoad
    \/ SplitPage
    \/ SplitReturn
    \/ DeleteLoad
    \/ DeletePage
    \/ DeleteSave
    \/ ExtractLoad
    \/ ExtractPage
    \/ ExtractSave

SpecOrg == OrgInit /\ [][OrgNext]_vars

(***************************************************************************)
(* SpecPages: the workspace of the tools that show page thumbnails.  The   *)
(* user selects one of these tools, offers a PDF, goes back, and rotates,  *)
(* deletes and drags the thumbnails shown, while renderThumbnails runs on. *)
(***************************************************************************)
\* The PDFs offered: of 1..MaxThumbs pages, some of which pdf.js cannot open.
ThumbFiles ==
    [type : {MimePdf}, name : {<<"a", ".", "p", "d", "f">>},
     pageCount : 1..MaxThumbs, loads : BOOLEAN]

PagesSelectTool ==
    /\ \E id \in ThumbTools : selectTool(id)
    /\ UNCHANGED <<parseVars, validVars, orgVars, rotVars, recent, saves, otherVars>>

PagesHandleFiles ==
    /\ ~dropHidden
    /\ Len(renders) < MaxRenders
    /\ \E f \in ThumbFiles : handleFiles(<<f>>)
    /\ UNCHANGED <<parseVars, validVars, orgVars, rotVars, outVars, otherVars>>

\* A click on the rotate button of a thumbnail, the editor area shown.
ClickRotate ==
    /\ dropHidden
    /\ \E pos \in 1..Len(grid) :
          /\ grid[pos].kind = "thumb"
          /\ rotatePage(grid[pos].index)
    /\ UNCHANGED <<parseVars, validVars, orgVars, rotVars, outVars, otherVars>>

\* A click on the delete button of a thumbnail, the editor area shown.
ClickDelete ==
    /\ dropHidden
    /\ \E pos \in 1..Len(grid) :
          /\ grid[pos].kind = "thumb"
          /\ deletePage(grid[pos].index, pos)
    /\ UNCHANGED <<parseVars, validVars, orgVars, rotVars, outVars, otherVars>>

\* A child of the grid dragged to another place, the editor area shown.
Drag ==
    /\ dropHidden
    /\ \E oldIndex, newIndex \in 0..(Len(grid) - 1) :
          /\ oldIndex # newIndex
          /\ onEnd(oldIndex, newIndex)
    /\ UNCHANGED <<parseVars, validVars, orgVars, rotVars, outVars, otherVars>>

PagesNext ==
    \/ PagesSelectTool
    \/ PagesHandleFiles
    \/ Reset
    \/ RenderLoad
    \/ RenderPage
    \/ RenderDone
    \/ ClickRotate
    \/ ClickDelete
    \/ Drag

SpecPages == AppInit /\ [][PagesNext]_vars

(***************************************************************************)
(* SpecFlow: the workspace flow of the organize and delete-pages tools.    *)
(* The user selects the tool, offers one PDF, waits for the thumbnails,    *)
(* removes pages and clicks process once; the operation runs to its end.   *)
(***************************************************************************)
FlowTools == {"organize", "delete-pages"}

FlowFiles ==
    [type : {MimePdf}, name : {<<"a", ".", "p", "d", "f">>},
     pageCount : 1..MaxPages, loads : BOOLEAN, angle : {0, 270}]

FlowSelectTool ==
    /\ activeTool = Null
    /\ \E id \in FlowTools : selectTool(id)
    /\ UNCHANGED <<parseVars, validVars, orgVars, rotVars, recent, saves, otherVars>>

FlowHandleFiles ==
    /\ activeTool # Null
    /\ ~dropHidden
    /\ \E f \in FlowFiles : handleFiles(<<f>>)
    /\ UNCHANGED <<parseVars, validVars, orgVars, rotVars, outVars, otherVars>>

FlowDelete ==
    /\ dropHidden
    /\ renders = <<>>
    /\ runs = <<>>
    /\ \E pos \in 1..Len(grid) :
          /\ grid[pos].kind = "thumb"
          /\ deletePage(grid[pos].index, pos)
    /\ UNCHANGED <<parseVars, validVars, orgVars, rotVars, outVars, otherVars>>

FlowProcessClick ==
    /\ dropHidden
    /\ renders = <<>>
    /\ runs = <<>>
    /\ ProcessButtonUsable
    /\ processClick
    /\ UNCHANGED <<parseVars, validVars, uiVars, orgVars, rotVars, otherVars>>

FlowDispatch ==
    /\ runs # <<>>
    /\ processDispatch(1)
    /\ startOperation(activeTool)
    /\ UNCHANGED <<parseVars, validVars, dropHidden, grid, pageState, renders, rotVars, otherVars>>

OrganizeLoad == loadSource("organize") /\ UNCHANGED <<parseVars, validVars, appVars, uiVars, rotVars, outVars, otherVars>>

OrganizePage == organizePage /\ UNCHANGED <<parseVars, validVars, appVars, rotVars, outVars, otherVars>>

OrganizeSave == organizeSave /\ UNCHANGED <<parseVars, validVars, appVars, rotVars, outVars, otherVars>>

FlowReturn ==
    /\ runs # <<>>
    /\ oPc = "returned"
    /\ processReturn(1)
    /\ UNCHANGED <<parseVars, validVars, uiVars, orgVars, rotVars, otherVars>>

FlowThrow ==
    /\ runs # <<>>
    /\ oPc = "threw"
    /\ processThrow(1)
    /\ UNCHANGED <<parseVars, validVars, uiVars, orgVars, rotVars, otherVars>>

FlowNext ==
    \/ FlowSelectTool
    \/ FlowHandleFiles
    \/ RenderLoad
    \/ RenderPage
    \/ RenderDone
    \/ FlowDelete
    \/ FlowProcessClick
    \/ FlowDispatch
    \/ OrganizeLoad
    \/ OrganizePage
    \/ OrganizeSave
    \/ DeleteLoad
    \/ DeletePage
    \/ DeleteSave
    \/ FlowReturn
    \/ FlowThrow

SpecFlow == AppInit /\ [][FlowNext]_vars
(***************************************************************************)
(* SpecRotate: one page of a document through rotations one after another. *)
(* The rotate tool adds the chosen angle with rotateAll; the organize tool *)
(* adds the rotation the clicks on the thumbnail of the page accumulated.  *)
(* The output of an operation is the input of the next, its thumbnail      *)
(* rendered anew.                                                          *)
(***************************************************************************)
\* The /Rotate of a page of an input document.
Angles == {0, 90, 180, 270}

\* The options of the select #rotate-angle.
RotateOptions == {90, 180, 270}

\* rotateAll, for one page: the chosen angle is added to the rotation the
\* page has.
rotateAll(currentRotation, rotationDegrees) ==
    rotated(currentRotation, rotationDegrees)

\* organize, for one page: the rotation of its entry of pageConfig is added
\* to the rotation the copied page has, unless it is 0.
organize(currentRotation, rotation) ==
    IF rotation # 0 THEN rotated(currentRotation, rotation) ELSE currentRotation

RotateInit ==
    /\ rStart \in Angles
    /\ rDoc = rStart
    /\ rDeltas = 0
    /\ rClicks = 0
    /\ rLog = <<>>
    /\ ParseIdle
    /\ ValidIdle
    /\ AppIdle
    /\ UiIdle
    /\ OrgIdle
    /\ OutIdle
    /\ OtherIdle

\* A click on the rotate button of the thumbnail: app.rotatePage.
RotateClick ==
    /\ rClicks < MaxTurns
    /\ rDeltas' = rotatePageBy90(rDeltas)
    /\ rClicks' = rClicks + 1
    /\ UNCHANGED <<rStart, rDoc, rLog>>
    /\ UNCHANGED <<parseVars, validVars, appVars, uiVars, orgVars, outVars, otherVars>>

\* The rotate tool processes the document.
RotateAll ==
    /\ Len(rLog) < MaxTurns
    /\ \E rotationDegrees \in RotateOptions :
          /\ rDoc' = rotateAll(rDoc, rotationDegrees)
          /\ rLog' = Append(rLog, rotationDegrees)
    /\ rDeltas' = 0
    /\ rClicks' = 0
    /\ UNCHANGED rStart
    /\ UNCHANGED <<parseVars, validVars, appVars, uiVars, orgVars, outVars, otherVars>>

\* The organize tool processes the document, with the rotation the clicks
\* gave the entry of the page.
Organize ==
    /\ Len(rLog) < MaxTurns
    /\ rDoc' = organize(rDoc, rDeltas)
    /\ rLog' = Append(rLog, rDeltas)
    /\ rDeltas' = 0
    /\ rClicks' = 0
    /\ UNCHANGED rStart
    /\ UNCHANGED <<parseVars, validVars, appVars, uiVars, orgVars, outVars, otherVars>>

RotateNext == RotateClick \/ RotateAll \/ Organize

SpecRotate == RotateInit /\ [][RotateNext]_vars

(***************************************************************************)
(* SpecRecent: UI.saveRecentFile called time after time, as process does   *)
(* at the end of each run that did not fail.                               *)
(***************************************************************************)
\* The names of the tools and the filenames the calls are made with.
RecentTools == {"Merge PDF", "Split PDF"}

RecentInit ==
    /\ OutIdle
    /\ OtherIdle
    /\ ParseIdle
    /\ ValidIdle
    /\ AppIdle
    /\ UiIdle
    /\ OrgIdle
    /\ RotIdle

SaveRecentFile ==
    /\ Len(saves) < MaxSaves
    /\ \E toolName \in RecentTools : saveRecentFile(toolName, <<"a">>)
    /\ UNCHANGED result
    /\ UNCHANGED <<parseVars, validVars, appVars, uiVars, orgVars, rotVars, otherVars>>

RecentNext == SaveRecentFile

SpecRecent == RecentInit /\ [][RecentNext]_vars

(***************************************************************************)
(* SpecRuns: the user clicks the process button time after time, between   *)
(* selections and resets.                                                  *)
(***************************************************************************)
\* A tool for several files, a tool for one, a tool process has no branch
\* for.
RunTools == {"merge", "compress", "protect"}

RunsSelectTool ==
    /\ \E id \in RunTools : selectTool(id)
    /\ UNCHANGED <<parseVars, validVars, orgVars, rotVars, recent, saves, otherVars>>

RunsHandleFiles ==
    /\ ~dropHidden
    /\ \E fileList \in {<<FilePdf>>, <<FilePng>>} : handleFiles(fileList)
    /\ UNCHANGED <<parseVars, validVars, orgVars, rotVars, outVars, otherVars>>

RunsProcessClick ==
    /\ Len(runs) < MaxClicks
    /\ ProcessButtonUsable
    /\ processClick
    /\ UNCHANGED <<parseVars, validVars, uiVars, orgVars, rotVars, otherVars>>

RunsNext ==
    \/ RunsSelectTool
    \/ Reset
    \/ RunsHandleFiles
    \/ RunsProcessClick
    \/ ProcessDispatch
    \/ ProcessReturn
    \/ ProcessThrow

SpecRuns == AppInit /\ [][RunsNext]_vars


(***************************************************************************)
(* SpecItems: one call of repair, reverse or imagesToPDF on files some of  *)
(* whose pages or images fail, a step for the load and for each iteration. *)
(***************************************************************************)
\* The PDFs handed over: of 0..MaxPages pages, any of which may fail to
\* copy; some files the library cannot load.
ItemFiles ==
    UNION {[pageCount : {n}, loads : BOOLEAN, bad : SUBSET (0..(n - 1))] :
              n \in 0..MaxPages}

\* The images handed over: JPEG and PNG files, some of which cannot be
\* embedded.
ImageFiles == [type : {MimeJpeg, MimePng}, embeds : BOOLEAN]

ItemCalls ==
    {[op |-> op, files |-> <<f>>] : op \in {"repair", "reverse"}, f \in ItemFiles}
    \cup {[op |-> "imagesToPDF", files |-> fs] :
            fs \in SeqsUpTo(ImageFiles, MaxFiles) \ {<<>>}}

ItemInit ==
    /\ \E c \in ItemCalls :
          /\ oOp = c.op
          /\ oFiles = c.files
          /\ oPc = IF c.op = "imagesToPDF" THEN "loop" ELSE "load"
    /\ oArg = <<>>
    /\ oI = 0
    /\ oProcessed = 0
    /\ oNewPdf = <<>>
    /\ oSplitPDFs = <<>>
    /\ oProgress = <<>>
    /\ oResult = <<>>
    /\ ParseIdle
    /\ ValidIdle
    /\ AppIdle
    /\ UiIdle
    /\ RotIdle
    /\ OutIdle
    /\ OtherIdle

ItemFrame ==
    UNCHANGED <<parseVars, validVars, appVars, uiVars, rotVars, outVars,
                secVars, navVars, trigVars, zipVars>>

RepairLoad == repairLoad /\ ItemFrame

RepairPage == repairPage /\ ItemFrame

RepairEnd == repairEnd /\ ItemFrame

ReverseLoad == reverseLoad /\ ItemFrame

ReversePage == reversePage /\ ItemFrame

ReverseSave == reverseSave /\ ItemFrame

ImagesToPDFItem == imagesToPDFItem /\ ItemFrame

ImagesToPDFSave == imagesToPDFSave /\ ItemFrame

ItemNext ==
    \/ RepairLoad
    \/ RepairPage
    \/ RepairEnd
    \/ ReverseLoad
    \/ ReversePage
    \/ ReverseSave
    \/ ImagesToPDFItem
    \/ ImagesToPDFSave

SpecItems == ItemInit /\ [][ItemNext]_vars

(***************************************************************************)
(* SpecSec: addPassword and removeMetadata called on one document, with    *)
(* one password or another; removeMetadata also on what an earlier call of *)
(* it returned.                                                            *)
(***************************************************************************)
\* Most calls in a behaviour.
MaxCalls == 2

Passwords == {"", "secret", "hunter2"}

SourcePages(n) == [i \in 1..n |-> [file |-> 1, index |-> i - 1, drawn |-> <<>>]]

\* The documents handed over: of 0..MaxPages pages, with and without
\* metadata; some the library cannot load.
SecDocs ==
    { [pages |-> SourcePages(n), loads |-> l, title |-> t, author |-> a,
       subject |-> s, keywords |-> k, creator |-> c, producer |-> "Word"] :
        n \in 0..MaxPages, l \in BOOLEAN, t \in {"", "Report"},
        a \in {"", "Ann"}, s \in {"", "Sales"},
        k \in {<<>>, <<"q3", "draft">>}, c \in {NoEntry, "Word"} }

SecInit ==
    /\ sIn \in SecDocs
    /\ sLog = <<>>
    /\ ParseIdle
    /\ ValidIdle
    /\ AppIdle
    /\ UiIdle
    /\ OrgIdle
    /\ RotIdle
    /\ OutIdle
    /\ ItemIdle
    /\ NavIdle
    /\ TrigIdle
    /\ ZipIdle

SecFrame ==
    UNCHANGED <<parseVars, validVars, appVars, uiVars, orgVars, rotVars,
                outVars, itemVars, navVars, trigVars, zipVars, sIn>>

AddPassword ==
    /\ Len(sLog) < MaxCalls
    /\ \E password \in Passwords :
          sLog' = Append(sLog, Logged("addPassword", password, sIn))
    /\ SecFrame

\* The documents removeMetadata is handed: the file, or a file an earlier
\* call of it returned.
Cleaned ==
    {sLog[j].out.bytes : j \in {i \in 1..Len(sLog) :
                                   sLog[i].op = "removeMetadata" /\ ~sLog[i].threw}}

RemoveMetadata ==
    /\ Len(sLog) < MaxCalls
    /\ \E doc \in {sIn} \cup Cleaned :
          sLog' = Append(sLog, Logged("removeMetadata", "", doc))
    /\ SecFrame

SecNext ==
    \/ AddPassword
    \/ RemoveMetadata

SpecSec == SecInit /\ [][SecNext]_vars

(***************************************************************************)
(* SpecRouter: the page is opened under some hash, app.init runs, and the  *)
(* user selects tools, resets, and changes the hash by hand or with the    *)
(* back button; the hashchange events are delivered in between.            *)
(***************************************************************************)
\* The hashes the page is opened under and the user navigates to.
Hashes == {"", "home", "dashboard", "workspace", "about"}

RouterTools == {"merge", "split"}

RouterInit ==
    /\ activeTool = Null
    /\ files = <<>>
    /\ hash \in Hashes
    /\ loader = FALSE
    /\ toast = NoToast
    /\ runs = <<>>
    /\ event = NoEvent
    /\ views \in DocViews
    /\ active = {}
    /\ handled = NotHandled
    /\ ParseIdle
    /\ ValidIdle
    /\ UiIdle
    /\ OrgIdle
    /\ RotIdle
    /\ OutIdle
    /\ ItemIdle
    /\ SecIdle
    /\ TrigIdle
    /\ ZipIdle

RouterFrame ==
    UNCHANGED <<parseVars, validVars, orgVars, rotVars, itemVars, secVars,
                trigVars, zipVars>>

\* app.init, as far as the router goes: window.onhashchange is set and
\* app.router.handle called.
AppInitRouter ==
    /\ ~handled.init
    /\ handle
    /\ UNCHANGED <<activeTool, files, loader, toast, runs, event>>
    /\ UNCHANGED <<uiVars, outVars>>
    /\ RouterFrame

\* A hashchange event is delivered.
HashChange ==
    /\ HashChangePending
    /\ handle
    /\ UNCHANGED <<activeTool, files, loader, toast, runs, event>>
    /\ UNCHANGED <<uiVars, outVars>>
    /\ RouterFrame

\* The user edits the hash in the address bar, or goes back or forward.
Navigate ==
    /\ handled.init
    /\ \E h \in Hashes : hash' = h
    /\ hashChanges
    /\ UNCHANGED <<activeTool, files, loader, toast, runs, event>>
    /\ UNCHANGED <<uiVars, outVars, views, active>>
    /\ RouterFrame

RouterSelectTool ==
    /\ handled.init
    /\ \E id \in RouterTools : selectTool(id)
    /\ hashChanges
    /\ UNCHANGED <<recent, saves, views, active>>
    /\ RouterFrame

RouterReset ==
    /\ handled.init
    /\ reset
    /\ hashChanges
    /\ UNCHANGED <<recent, saves, views, active>>
    /\ RouterFrame

RouterNext ==
    \/ AppInitRouter
    \/ HashChange
    \/ Navigate
    \/ RouterSelectTool
    \/ RouterReset

SpecRouter == RouterInit /\ [][RouterNext]_vars

(***************************************************************************)
(* SpecTrigger: SpecRuns with a record of the tool and the files that were *)
(* selected at each click on the process button.                           *)
(***************************************************************************)
TriggerProcessClick ==
    /\ Len(runs) < MaxClicks
    /\ ProcessButtonUsable
    /\ processClick
    /\ clicked' = Append(clicked, [tool |-> activeTool, files |-> files])
    /\ UNCHANGED <<parseVars, validVars, uiVars, orgVars, rotVars,
                   itemVars, secVars, navVars, zipVars>>

TriggerNext ==
    \/ RunsSelectTool
    \/ Reset
    \/ RunsHandleFiles
    \/ TriggerProcessClick
    \/ ProcessDispatch
    \/ ProcessReturn
    \/ ProcessThrow

SpecTrigger == AppInit /\ [][TriggerNext]_vars

(***************************************************************************)
(* SpecLoader: the loader overlay.  The user selects a tool, offers a      *)
(* file, clicks process and, once several results are shown, the ZIP       *)
(* button.  Every continuation that waits is run in the end: the timer of  *)
(* the sleep fires, and a call into a library returns or throws.           *)
(***************************************************************************)
\* A tool with several results and a tool with one.
LoaderTools == {"pdf-to-png", "merge"}

LoaderSelectTool ==
    /\ \E id \in LoaderTools : selectTool(id)
    /\ UNCHANGED <<parseVars, validVars, orgVars, rotVars, recent, saves, otherVars>>

LoaderFrame ==
    UNCHANGED <<parseVars, validVars, uiVars, orgVars, rotVars, outVars,
                itemVars, secVars, navVars, trigVars>>

\* A click on 'Download All as ZIP': the button is in the result area, which
\* shows it for several results, and takes no click under the loader.
ZipClick ==
    /\ result.shown = "multiple"
    /\ ~loader
    /\ zip # "generate"
    /\ downloadAsZip
    /\ LoaderFrame

ZipGenerated == zipGenerated /\ LoaderFrame

ZipFailed == zipFailed /\ LoaderFrame

\* The operation a run of process called returns or throws.
ProcessSettles == ProcessReturn \/ ProcessThrow

\* zip.generateAsync resolves or rejects.
ZipSettles == ZipGenerated \/ ZipFailed

LoaderNext ==
    \/ LoaderSelectTool
    \/ Reset
    \/ RunsHandleFiles
    \/ RunsProcessClick
    \/ ProcessDispatch
    \/ ProcessReturn
    \/ ProcessThrow
    \/ ZipClick
    \/ ZipGenerated
    \/ ZipFailed

SpecLoader ==
    /\ AppInit
    /\ [][LoaderNext]_vars
    /\ WF_vars(ProcessDispatch)
    /\ WF_vars(ProcessSettles)
    /\ WF_vars(ZipSettles)

(***************************************************************************)
(* SpecFrame: the grid under the Sortable, in a workspace that shows page  *)
(* thumbnails (organize) and in one that shows a card for each file        *)
(* (merge).  The one Sortable is made on #thumbnails-grid at start-up, whatever  *)
(* the grid comes to hold.                                                 *)
(***************************************************************************)
FrameTools == {"organize", "merge"}

\* The lists offered: one PDF, or two of one page each.
FrameLists ==
    {<<f>> : f \in ThumbFiles} \cup
    {<<f, g>> : f, g \in {t \in ThumbFiles : t.loads /\ t.pageCount = 1}}

FrameSelectTool ==
    /\ \E id \in FrameTools : selectTool(id)
    /\ UNCHANGED <<parseVars, validVars, orgVars, rotVars, recent, saves, otherVars>>

\* Files are offered while no preview is being drawn.
FrameHandleFiles ==
    /\ ~dropHidden
    /\ renders = <<>>
    /\ \E list \in FrameLists : handleFiles(list)
    /\ UNCHANGED <<parseVars, validVars, orgVars, rotVars, outVars, otherVars>>

\* A click on the remove button of a file card, the editor area shown.
ClickRemove ==
    /\ dropHidden
    /\ \E pos \in 1..Len(grid) :
          /\ grid[pos].kind = "file"
          /\ removeFile(grid[pos].index)
    /\ UNCHANGED <<parseVars, validVars, orgVars, rotVars, outVars, otherVars>>

FrameNext ==
    \/ FrameSelectTool
    \/ FrameHandleFiles
    \/ Reset
    \/ RenderLoad
    \/ RenderPage
    \/ RenderDone
    \/ ClickRotate
    \/ ClickDelete
    \/ ClickRemove
    \/ Drag

SpecFrame == AppInit /\ [][FrameNext]_vars
(***************************************************************************)
(* Properties of parsePageRange.                                           *)
(***************************************************************************)
\* The tokens of an expression: the places <<i, j>> of its maximal
\* comma-free stretches (j = i - 1 for an empty token).
TokensOf(s) ==
    {t \in (1..Len(s) + 1) \X (0..Len(s)) :
        /\ t[2] >= t[1] - 1
        /\ (t[1] = 1 \/ s[t[1] - 1] = ",")
        /\ (t[2] = Len(s) \/ s[t[2] + 1] = ",")
        /\ \A k \in t[1]..t[2] : s[k] # ","}

IsNumberAt(s, i, j) == j >= i /\ \A k \in i..j : s[k] \in DigitChars

RECURSIVE NumberAt(_, _, _)
NumberAt(s, i, j) ==
    IF j < i THEN 0 ELSE NumberAt(s, i, j - 1) * 10 + DigitVal(s[j])

IsRangeAt(s, i, j) ==
    \E d \in i..j : s[d] = "-" /\ IsNumberAt(s, i, d - 1) /\ IsNumberAt(s, d + 1, j)

DashOf(s, i, j) == CHOOSE d \in i..j : s[d] = "-"

RangeLo(s, i, j) == NumberAt(s, i, DashOf(s, i, j) - 1)
RangeHi(s, i, j) == NumberAt(s, DashOf(s, i, j) + 1, j)

IsReversedAt(s, i, j) == IsRangeAt(s, i, j) /\ RangeLo(s, i, j) > RangeHi(s, i, j)

\* The page numbers a single-number or range token denotes.
Denotes(s, i, j) ==
    IF IsNumberAt(s, i, j) THEN {NumberAt(s, i, j)}
    ELSE {n \in 0..RangeHi(s, i, j) : RangeLo(s, i, j) <= n}

DenotedBy(s, toks) == UNION {Denotes(s, t[1], t[2]) : t \in toks}

\* Comma-separated tokens, each a positive integer n or a range a-b, a <= b.
WellFormed(s) ==
    \A t \in TokensOf(s) :
        \/ IsNumberAt(s, t[1], t[2]) /\ NumberAt(s, t[1], t[2]) >= 1
        \/ /\ IsRangeAt(s, t[1], t[2])
           /\ 1 <= RangeLo(s, t[1], t[2])
           /\ RangeLo(s, t[1], t[2]) <= RangeHi(s, t[1], t[2])

\* Numbers and ranges only, the ranges in either direction.
NumbersAndRanges(s) ==
    \A t \in TokensOf(s) : IsNumberAt(s, t[1], t[2]) \/ IsRangeAt(s, t[1], t[2])

\* Strictly ascending as JavaScript compares numbers: a comparison with NaN
\* is false.
Ascending(arr) ==
    \A i, j \in 1..Len(arr) :
        i < j => (arr[i] # NaN /\ arr[j] # NaN /\ arr[i] < arr[j])

NoDuplicates(arr) == \A i, j \in 1..Len(arr) : i # j => arr[i] # arr[j]

\* C4 (as claimed): for every input expression, malformed, empty and
\* non-numeric tokens included, the returned sequence is in ascending order
\* and holds no value twice.  The code breaks it: an unparsable token puts
\* NaN into the result, and the numeric sort leaves NaN and the numbers
\* around it where they were.
C4_AlwaysAscendingNoDuplicates ==
    pPc = "done" => Ascending(pPages) /\ NoDuplicates(pPages)

\* C5: for every well-formed expression the result is exactly the set union
\* of {n} for the single tokens and {a..b} for the range tokens, in
\* ascending order; "1,3,5-7" gives [1,3,5,6,7], "2-2" gives [2] and
\* "1,1,2" gives [1,2].
C5_WellFormedGivesUnion ==
    /\ (pPc = "done" /\ WellFormed(pInput)) =>
          /\ Range(pPages) = DenotedBy(pInput, TokensOf(pInput))
          /\ Ascending(pPages)
    /\ (pPc = "done" /\ pInput = <<"1", ",", "3", ",", "5", "-", "7">>) =>
          pPages = <<1, 3, 5, 6, 7>>
    /\ (pPc = "done" /\ pInput = <<"2", "-", "2">>) => pPages = <<2>>
    /\ (pPc = "done" /\ pInput = <<"1", ",", "1", ",", "2">>) => pPages = <<1, 2>>

\* A well-formed expression mixing single tokens, a range and a repeated
\* number has been parsed.
C5_Witness ==
    /\ pPc = "done"
    /\ pInput = <<"1", ",", "3", ",", "5", "-", "7">>
    /\ pPages = <<1, 3, 5, 6, 7>>

\* C6: a range token whose start is greater than its end contributes no
\* page number; the other tokens of the expression still contribute theirs.
C6_ReversedRangeContributesNothing ==
    LET toks     == TokensOf(pInput)
        reversed == {t \in toks : IsReversedAt(pInput, t[1], t[2])}
    IN  (pPc = "done" /\ NumbersAndRanges(pInput) /\ reversed # {}) =>
            /\ Range(pPages) = DenotedBy(pInput, toks \ reversed)
            /\ Ascending(pPages)

\* An expression with a reversed range between two other tokens has been
\* parsed, and the other tokens are in the result.
C6_Witness ==
    /\ pPc = "done"
    /\ pInput = <<"1", ",", "7", "-", "5", ",", "2">>
    /\ pPages = <<1, 2>>

(***************************************************************************)
(* Properties of the validators.                                           *)
(***************************************************************************)
\* The extension of a .png file.
DotPng == <<".", "p", "n", "g">>

\* C7 (as claimed): isValidPDF passes every file whose declared MIME type
\* is application/pdf regardless of its extension; isValidImage passes
\* every .png file and fails every .pdf file.
C7_AsClaimed ==
    vPc = "done" =>
        /\ (vFile.type = MimePdf => vRes.pdf)
        /\ (EndsWith(vFile.name, DotPng) => vRes.image)
        /\ (EndsWith(vFile.name, DotPdf) => ~vRes.image)

\* C7 (amended): isValidPDF passes every file whose declared MIME type is
\* application/pdf regardless of its extension; isValidImage reads the
\* declared MIME type alone: it passes a file exactly when that type is
\* image/jpeg, image/png or image/jpg, so a .png file declared image/png
\* passes and a .pdf file declared application/pdf fails.
C7_ValidatorsByDeclaredType ==
    vPc = "done" =>
        /\ (vFile.type = MimePdf => vRes.pdf)
        /\ (vRes.image <=> vFile.type \in {MimeJpeg, MimePng, MimeJpg})
        /\ (EndsWith(vFile.name, DotPng) /\ vFile.type = MimePng => vRes.image)
        /\ (EndsWith(vFile.name, DotPdf) /\ vFile.type = MimePdf => ~vRes.image)

\* A file declared application/pdf under a .png name has been checked: it
\* passed the PDF check and failed the image check.
C7_Witness ==
    /\ vPc = "done"
    /\ vFile.type = MimePdf
    /\ vFile.name = <<"a", ".", "p", "n", "g">>
    /\ vRes.pdf
    /\ ~vRes.image

(***************************************************************************)
(* Properties of the controller.                                           *)
(***************************************************************************)
\* C1 (as claimed): for every tool id of the registry, app.process with a
\* non-empty file selection invokes exactly one tool-module operation and
\* passes it UI.updateProgress.  The code breaks it: app.process has no
\* branch for ppt-to-pdf, add-image, header-footer and protect, and ends
\* without calling anything.
C1_EveryToolInvokesOneOperation ==
    \A r \in 1..Len(runs) :
        runs[r].pc \in {"op", "fellthrough"} =>
            /\ Len(runs[r].calls) = 1
            /\ runs[r].calls[1].cb = "UI.updateProgress"

\* The input type the registry's tools expect.
ExpectedInput(tid, f) ==
    CASE tid = "word-to-pdf"   -> f.type \in {MimeDocx, MimeDoc}
      [] tid = "excel-to-pdf"  -> f.type \in {MimeXlsx, MimeXls}
      [] tid = "ppt-to-pdf"    -> f.type \in {MimePptx, MimePpt}
      [] tid = "images-to-pdf" -> f.type \in {MimeJpeg, MimePng}
      [] OTHER                 -> f.type = MimePdf

\* C2 (as claimed): for every tool of the registry, handleFiles accepts a
\* file of the tool's expected input type and stores it in app.files: a PDF
\* for every PDF-input tool (pdf-to-word, pdf-to-excel and pdf-to-ppt
\* included), a Word document for word-to-pdf, a spreadsheet for
\* excel-to-pdf, a presentation for ppt-to-pdf, JPEG/PNG images for
\* images-to-pdf.  The code breaks it: every id holding 'word' is checked
\* as a document and every other id holding 'pdf' as a PDF.
C2_ExpectedInputAccepted ==
    (/\ event.tid \in ToolIds
     /\ Len(event.list) = 1
     /\ ExpectedInput(event.tid, event.list[1])) =>
        /\ event.res = "accepted"
        /\ files = Selected(event.list, "accepted")

RejectionToasts ==
    {Toast("This tool accepts only one file at a time.", "error"),
     Toast("Invalid file type for this tool.", "error")}

\* C3: when handleFiles rejects a selection (a file of the wrong type for
\* the active tool, or several files for a single-file tool) an error toast
\* is shown and no operation is ever started on a rejected file: app.files
\* never holds one, so a later app.process reports 'No files selected' or
\* hands its operation files of an accepted selection only.
C3_RejectedNeverProcessed ==
    /\ event.res = "rejected-count" =>
          toast = Toast("This tool accepts only one file at a time.", "error")
    /\ event.res = "rejected-type" =>
          toast = Toast("Invalid file type for this tool.", "error") /\ files = <<>>
    /\ \A i \in 1..Len(files) : files[i].verdict = "accepted"
    /\ \A r \in 1..Len(runs) :
          /\ \A i \in 1..Len(runs[r].files) : runs[r].files[i].verdict = "accepted"
          /\ runs[r].pc = "nofiles" => runs[r].calls = <<>>

\* A selection was rejected, its toast is still the last one shown, and an
\* operation is running on the file of the selection accepted before.
C3_Witness ==
    /\ toast \in RejectionToasts
    /\ \E r \in 1..Len(runs) : runs[r].pc = "op" /\ runs[r].files # <<>>


\* C19: app.files is replaced as a whole by each selection and emptied by a
\* reset: after a handleFiles call it holds files of the list just given
\* only, none of a selection before; after resetWorkspace or reset, which
\* show the drop zone again and are the only steps to change the view, it is
\* empty.
C19_FilesReplacedBySelectionClearedByReset ==
    [][/\ event' # NoEvent =>
             \A i \in 1..Len(files') :
                 files'[i] \in Range(Selected(event'.list, "accepted"))
       /\ ~dropHidden' => files' = <<>>
       /\ hash' # hash => files' = <<>>
      ]_vars

\* A selection of two images was accepted while an operation runs on the
\* PDF selected before it.
C19_Witness ==
    /\ event.res = "accepted"
    /\ files = Selected(<<FilePng, FilePng>>, "accepted")
    /\ \E r \in 1..Len(runs) :
          runs[r].pc = "op" /\ runs[r].files = Selected(<<FilePdf>>, "accepted")

\* C29: in every reachable state a tool that does not accept several files
\* has at most one file in app.files, and app.files holds files only while a
\* tool is active, so that no run of app.process takes a branch without a
\* tool.
C29_SingleFileToolHoldsAtMostOneFile ==
    /\ (activeTool # Null /\ ~ToolDef(activeTool).multiple) => Len(files) <= 1
    /\ files # <<>> => activeTool # Null
    /\ \A r \in 1..Len(runs) :
          runs[r].pc \in {"op", "fellthrough"} => runs[r].tid # Null

\* Two files were offered to a tool that takes one, and turned away.
C29_Witness ==
    /\ activeTool = "pdf-to-word"
    /\ event.res = "rejected-count"
    /\ Len(event.list) = 2
    /\ files = <<>>

(***************************************************************************)
(* Claims about merge, split and deletePages.                              *)
(***************************************************************************)
RECURSIVE SumPages(_)
SumPages(fs) ==
    IF fs = <<>> THEN 0 ELSE Head(fs).pageCount + SumPages(Tail(fs))

\* The pages of the files before the one at position k.
PagesBefore(k) == SumPages(SubSeq(oFiles, 1, k - 1))

SourcePage(k, p) == [file |-> k, index |-> p]

C9_SplitGivesOneOutputPerPage ==
    (oOp = "split" /\ oPc = "returned") =>
        /\ Len(oResult) = oFiles[1].pageCount
        /\ \A i \in 1..Len(oResult) :
              /\ oResult[i].pageNumber = i
              /\ oResult[i].filename = "page_" \o ToString(i) \o ".pdf"
              /\ oResult[i].blob = <<SourcePage(1, i - 1)>>

C9_Witness ==
    /\ oOp = "split"
    /\ oPc = "returned"
    /\ oFiles[1].pageCount = 3
    /\ Len(oResult) = 3
    /\ oResult[3].filename = "page_3.pdf"

\* The distinct page numbers requested for deletion.
Requested == Range(oArg)

RemainingInSourceOrder ==
    /\ \A j \in 1..Len(oResult) :
          /\ oResult[j].file = 1
          /\ oResult[j].index \in 0..(oFiles[1].pageCount - 1)
          /\ (oResult[j].index + 1) \notin Requested
    /\ \A j, k \in 1..Len(oResult) : j < k => oResult[j].index < oResult[k].index

\* C10 as stated: the page count of the document deletePages returns is the
\* source count minus the number of distinct pages requested.
C10_AsClaimed ==
    (oOp = "deletePages" /\ oPc = "returned") =>
        /\ Len(oResult) = oFiles[1].pageCount - Cardinality(Requested)
        /\ RemainingInSourceOrder

\* C10: the page count of the document deletePages returns is the source
\* count minus the number of distinct requested pages that lie in the
\* document; the pages are source pages not requested, in source order.  When
\* every page of the source is requested the document is one blank page.
C10_DeletePagesRemovesRequestedInRange ==
    (oOp = "deletePages" /\ oPc = "returned") =>
        LET N == oFiles[1].pageCount
            inDoc == Requested \cap (1..N)
        IN  IF Cardinality(inDoc) = N
               THEN oResult = <<BlankPage>>
               ELSE /\ Len(oResult) = N - Cardinality(inDoc)
                    /\ RemainingInSourceOrder

C10_Witness ==
    /\ oOp = "deletePages"
    /\ oPc = "returned"
    /\ oFiles[1].pageCount = 3
    /\ oArg = <<2, 4>>
    /\ oResult = <<SourcePage(1, 0), SourcePage(1, 2)>>

\* C11: extract returns a document with as many pages as the set of requested
\* page numbers within 1..source page count has members, those pages in
\* ascending order; numbers outside the range and NaN are dropped and the
\* call does not throw for them.  Stated for the calls that request a page
\* of the document (with none, save returns its one blank page).
C11_ExtractGivesRequestedSetAscending ==
    (oOp = "extract" /\ oPc = "returned"
        /\ Range(oArg) \cap (1..oFiles[1].pageCount) # {}) =>
        LET N == oFiles[1].pageCount
            wanted == Range(oArg) \cap (1..N)
        IN  /\ Len(oResult) = Cardinality(wanted)
            /\ \A j \in 1..Len(oResult) :
                  /\ oResult[j].file = 1
                  /\ (oResult[j].index + 1) \in wanted
            /\ \A j, k \in 1..Len(oResult) :
                  j < k => oResult[j].index < oResult[k].index

\* Whether the percent (num / den) * 100 of a report lies in [0, 100].
PercentInRange(report) ==
    \/ report.den > 0 /\ 0 <= report.num /\ report.num <= report.den
    \/ report.den < 0 /\ report.den <= report.num /\ report.num <= 0

\* C16: every percent an operation passes to its progress callback lies in
\* [0, 100], for every document and every page list, also one that names
\* pages outside the document.
C16_ProgressWithinZeroAndHundred ==
    \A j \in 1..Len(oProgress) : PercentInRange(oProgress[j])

(***************************************************************************)
(* Claims about the page state.                                            *)
(***************************************************************************)
\* C18: in every reachable state, every originalIndex held in UI.pageState
\* is a page index of the source document selected now, app.files[0].
\* Stated for the states with a document selected.
C18_PageStateWithinSelectedDocument ==
    files # <<>> =>
        \A j \in 1..Len(pageState) :
            /\ ~IsUndefined(pageState[j])
            /\ pageState[j].originalIndex \in 0..(files[1].pageCount - 1)

\* The pages of the selected document the user removed: those with no entry
\* left in UI.pageState.
UserRemoved ==
    (0..(oFiles[1].pageCount - 1))
        \ {pageState[j].originalIndex : j \in 1..Len(pageState)}

\* C12: in the workspace flow of organize and delete-pages (select a file,
\* the thumbnails render, the user removes pages, then process) the output
\* document has the pages of the source less the pages the user removed, and
\* none of the removed pages.  Stated for the outputs that hold a page of
\* the source (a document left without pages is saved as one blank page).
C12_FlowOutputLacksRemovedPages ==
    (runs # <<>> /\ oPc = "returned" /\ oResult # <<BlankPage>>) =>
        /\ Len(oResult) = oFiles[1].pageCount - Cardinality(UserRemoved)
        /\ \A j \in 1..Len(oResult) : oResult[j].index \notin UserRemoved

\* C26: the page state is discarded on workspace reset.  From
\* resetWorkspace until a new selection is accepted (the time the drop zone
\* is shown) UI.pageState is empty, also when renderThumbnails is still
\* running for the selection before: no entry is added to it.
C26_PageStateEmptyAfterReset ==
    ~dropHidden => pageState = <<>>
(***************************************************************************)
(* Rotation.                                                               *)
(***************************************************************************)
RECURSIVE Sum(_)
Sum(s) == IF s = <<>> THEN 0 ELSE s[1] + Sum(Tail(s))

\* The rotation a page shows for a stored /Rotate: a whole turn shows as
\* none.
Shown(angle) == angle % 360

\* C13: rotation is additive modulo 360.  The rotation of a page-state
\* entry is always one of 0, 90, 180, 270 and is 90 a click modulo 360; the
\* rotation a page shows after rotateAll and organize calls is the one it
\* had at first plus the degrees the calls were to add, modulo 360; so two
\* rotations by 90 show as one by 180 does, and four by 90 show the page as
\* it was.
C13_RotationAdditiveModulo360 ==
    /\ rDeltas \in {0, 90, 180, 270}
    /\ rDeltas = (90 * rClicks) % 360
    /\ Shown(rDoc) = Shown(rStart + Sum(rLog))
    /\ rLog = <<90, 90>> => Shown(rDoc) = Shown(rotateAll(rStart, 180))
    /\ rLog = <<90, 90, 90, 90>> => Shown(rDoc) = Shown(rStart)
    /\ rClicks = 2 => rDeltas = 180
    /\ rClicks = 4 => rDeltas = 0

\* Four rotations by 90 were applied to a page that had a rotation of 90:
\* the page holds 450 and shows as at first.
C13_Witness ==
    /\ rStart = 90
    /\ rLog = <<90, 90, 90, 90>>
    /\ rDoc = 450

(***************************************************************************)
(* The list of recent files.                                               *)
(***************************************************************************)
\* C14: after any sequence of saveRecentFile calls the stored list holds at
\* most 10 entries, which are the entries of the latest calls, the latest
\* first; from the 11th call on the entry of the first call is not in it.
C14_RecentListHoldsLatestTen ==
    /\ Len(recent) <= 10
    /\ Len(recent) = IF Len(saves) < 10 THEN Len(saves) ELSE 10
    /\ \A j \in 1..Len(recent) : recent[j] = saves[Len(saves) - j + 1]
    /\ Len(saves) >= 11 => saves[1] \notin Range(recent)

\* The 11th call was made.
C14_Witness ==
    /\ Len(saves) = 11
    /\ Len(recent) = 10
    /\ recent[10] = saves[2]

(***************************************************************************)
(* The outcome of app.process.                                             *)
(***************************************************************************)
\* C15: when the operation a run of app.process called throws, the step
\* that catches it hides the loader, shows one error toast with the thrown
\* message, shows no result and saves no recent file; no operation is
\* called by it, and the failed run does nothing after it.
C15_ThrowCaughtNoResultNoRetry ==
    [][\A r \in 1..Len(runs) :
          /\ (runs[r].pc = "op" /\ runs'[r].pc = "failed") =>
                /\ loader' = FALSE
                /\ toast'.type = "error"
                /\ runs'[r].error = "Failed to parse PDF document"
                      => toast'.msg = "Error: Failed to parse PDF document"
                /\ runs'[r].error = "file is undefined"
                      => toast'.msg = "Error: file is undefined"
                /\ result' = result
                /\ recent' = recent
                /\ saves' = saves
                /\ Len(runs') = Len(runs)
                /\ \A q \in 1..Len(runs') :
                      runs'[q].pc = "op" => (q # r /\ runs[q] = runs'[q])
          /\ runs[r].pc = "failed" => runs'[r] = runs[r]
      ]_vars

\* The operation of the one run threw: the loader is hidden, the toast
\* holds the message, no result is shown and no recent file stored.
C15_Witness ==
    /\ Len(runs) = 1
    /\ runs[1].pc = "failed"
    /\ runs[1].error = "file is undefined"
    /\ toast = Toast("Error: file is undefined", "error")
    /\ ~loader
    /\ result = NoResult
    /\ recent = <<>>

\* C17: every run of app.process that does not fail ends with one output
\* blob and a non-empty filename, or with a non-empty list of outputs each
\* of which has a blob and a filename.
C17_EveryRunYieldsBlobAndFilename ==
    \A r \in 1..Len(runs) :
        runs[r].pc \in {"returned", "fellthrough"} =>
            \/ /\ runs[r].out.blob
               /\ runs[r].out.filename # ""
               /\ runs[r].out.multiple = <<>>
            \/ /\ ~runs[r].out.blob
               /\ runs[r].out.multiple # <<>>
               /\ \A j \in 1..Len(runs[r].out.multiple) :
                     {"blob", "filename"} \subseteq DOMAIN runs[r].out.multiple[j]

\* An invocation of app.process that has started and has not finished.
InFlight(r) == runs[r].pc \in {"sleep", "op"}

ReadOf(tid, selection) ==
    IF dispatch(tid)[1].input = "files" THEN selection ELSE <<selection[1]>>

\* C27: a run of app.process works on the tool and the files that were
\* selected at its click.  The branch it takes is the one of the tool active
\* at the click, the files handed to the operation are those selected at the
\* click, and the recent file it saves is under the name of that tool, also
\* when selectTool, reset or a new selection comes before the run ends.
C27_RunUsesToolAndFilesOfItsClick ==
    [][\A r \in 1..Len(runs) :
          /\ (runs[r].pc = "sleep" /\ runs'[r].pc \in {"op", "fellthrough"}) =>
                /\ runs'[r].tid = clicked[r].tool
                /\ runs'[r].pc = "op" =>
                      runs'[r].files = ReadOf(clicked[r].tool, clicked[r].files)
          /\ (runs[r].pc \in {"sleep", "op"}
                /\ runs'[r].pc \in {"returned", "fellthrough"}) =>
                saves'[Len(saves')].tool = ToolDef(clicked[r].tool).name
      ]_vars

(***************************************************************************)
(* Claims about operations whose pages or items fail one by one.           *)
(***************************************************************************)
\* The pages of the source that can be copied, in source order.
Copyable(file) ==
    SelectSeq(getPageIndices(file), LAMBDA i : ~copyFails(file, i))

\* C21: repair tolerates unreadable pages.  While it runs, the new document
\* holds the copyable pages among those passed, in source order, and a page
\* that fails does not end the call; what it returns holds exactly the
\* copyable pages of the source in source order.  It throws only when the
\* document cannot be loaded or no page could be copied, in the latter case
\* with 'Repair failed: No valid pages found in PDF'.
C21_RepairSkipsUnreadablePages ==
    oOp = "repair" =>
        LET file == oFiles[1]
            good == Copyable(file)
        IN  /\ oPc = "loop" =>
                  oNewPdf = copyPages(1, SelectSeq(good, LAMBDA i : i < oI))
            /\ oPc = "returned" =>
                  /\ good # <<>>
                  /\ oResult = copyPages(1, good)
            /\ oPc = "threw" =>
                  /\ ~file.loads \/ good = <<>>
                  /\ (file.loads /\ good = <<>>) =>
                        oError = "Repair failed: No valid pages found in PDF"
                  /\ ~file.loads => oError = RepairFailed(LoadMessage)
            /\ (file.loads /\ good # <<>>) => oPc # "threw"

\* repair of a 3-page document whose second page cannot be copied returned
\* the first and the third page.
C21_Witness ==
    /\ oOp = "repair"
    /\ oPc = "returned"
    /\ oFiles[1].pageCount = 3
    /\ oFiles[1].bad = {1}
    /\ oResult = <<SourcePage(1, 0), SourcePage(1, 2)>>

\* Whether an item of the call failed: a page of the file that cannot be
\* copied, an image that cannot be embedded.
ItemFailed ==
    IF oOp = "imagesToPDF"
       THEN \E k \in 1..Len(oFiles) : ~oFiles[k].embeds
       ELSE oFiles[1].bad # {}

\* C22: in a multi-page operation other than repair (here reverse and
\* imagesToPDF) a failure on one page or item makes the whole call fail:
\* no call in which an item failed returns an output.
C22_ItemFailureFailsWholeOperation ==
    (oOp # "repair" /\ ItemFailed) => oPc # "returned"

(***************************************************************************)
(* Claims about addPassword and removeMetadata.                            *)
(***************************************************************************)
MetadataEmpty(doc) ==
    /\ doc.title = ""
    /\ doc.author = ""
    /\ doc.subject = ""
    /\ doc.keywords = <<>>

\* C23 as stated: the document removeMetadata returns has empty title,
\* author, subject and keywords, and its pages are the pages of the input.
C23_AsClaimed ==
    \A j \in 1..Len(sLog) :
        (sLog[j].op = "removeMetadata" /\ ~sLog[j].threw) =>
            /\ MetadataEmpty(sLog[j].out.bytes)
            /\ sLog[j].out.bytes.pages = sLog[j].in.pages

\* C23: the document removeMetadata returns has empty title, author and
\* subject and an empty keyword list whatever the input carried, also when
\* the input is what removeMetadata returned before; its pages are the pages
\* of the input, unchanged, when the input has a page, and one blank page
\* when it has none.
C23_MetadataClearedPagesKept ==
    \A j \in 1..Len(sLog) :
        (sLog[j].op = "removeMetadata" /\ ~sLog[j].threw) =>
            /\ MetadataEmpty(sLog[j].out.bytes)
            /\ sLog[j].out.bytes.pages =
                  IF sLog[j].in.pages = <<>> THEN <<BlankPage>>
                  ELSE sLog[j].in.pages

\* removeMetadata ran on a 2-page document with all its metadata set and
\* then on what it returned.
C23_Witness ==
    /\ Len(sLog) = 2
    /\ sIn.title = "Report" /\ sIn.author = "Ann" /\ sIn.subject = "Sales"
    /\ sIn.keywords = <<"q3", "draft">>
    /\ Len(sIn.pages) = 2
    /\ sLog[1].op = "removeMetadata" /\ sLog[1].in = sIn
    /\ sLog[2].op = "removeMetadata" /\ sLog[2].in = sLog[1].out.bytes
    /\ ~sLog[2].threw
    /\ MetadataEmpty(sLog[2].out.bytes)
    /\ sLog[2].out.bytes.pages = sIn.pages

\* The page with the notice of addPassword drawn on it.
Noticed(page) == [page EXCEPT !.drawn = Append(@, "Password Required")]

\* What load and save leave of a document that is not changed in between.
Resaved(doc) == saveDoc(load(doc))

\* C25 as stated: addPassword gives the same output for every two
\* passwords, with the page count of the input, the input but for the
\* notice drawn on its first page when it has one.
C25_AsClaimed ==
    \A j \in 1..Len(sLog) :
        (sLog[j].op = "addPassword" /\ ~sLog[j].threw) =>
            LET in == sLog[j].in
                out == sLog[j].out.bytes
            IN  /\ \A k \in 1..Len(sLog) :
                      (sLog[k].op = "addPassword" /\ sLog[k].in = in)
                          => sLog[k].out = sLog[j].out
                /\ Len(out.pages) = Len(in.pages)
                /\ out = IF Len(in.pages) > 0
                            THEN [in EXCEPT !.pages[1] = Noticed(@)]
                            ELSE in

\* C25: addPassword does not encrypt.  For the same input its output is the
\* same for every two passwords.  For an input with a page the output has
\* the page count of the input and differs from the input, loaded and saved
\* by the library, only by the notice drawn on the first page; for an input
\* without pages it is that document as saved, which is one blank page.
C25_OutputIndependentOfPassword ==
    \A j \in 1..Len(sLog) :
        (sLog[j].op = "addPassword" /\ ~sLog[j].threw) =>
            LET in == sLog[j].in
                out == sLog[j].out.bytes
            IN  /\ \A k \in 1..Len(sLog) :
                      (sLog[k].op = "addPassword" /\ sLog[k].in = in)
                          => sLog[k].out = sLog[j].out
                /\ IF Len(in.pages) > 0
                      THEN /\ Len(out.pages) = Len(in.pages)
                           /\ out = [Resaved(in) EXCEPT !.pages[1] = Noticed(@)]
                      ELSE /\ out = Resaved(in)
                           /\ out.pages = <<BlankPage>>

\* addPassword ran on a 2-page document with two different passwords.
C25_Witness ==
    /\ Len(sLog) = 2
    /\ Len(sIn.pages) = 2
    /\ sLog[1].op = "addPassword" /\ sLog[1].password = "secret"
    /\ sLog[2].op = "addPassword" /\ sLog[2].password = "hunter2"
    /\ ~sLog[1].threw
    /\ sLog[1].out = sLog[2].out
    /\ sLog[1].out.bytes.pages[1].drawn = <<"Password Required">>
    /\ sLog[1].out.bytes.pages[2] = sIn.pages[2]

(***************************************************************************)
(* Claims about the router.                                                *)
(***************************************************************************)
\* C24: the router has two states, dashboard and workspace.  After app.init
\* and any sequence of selectTool, reset and hash changes, once the hash
\* changes are handled, exactly one view is active, it is the dashboard
\* view or the workspace view, and the hash names it.
C24_OneOfTwoViewsActiveAndNamedByHash ==
    (handled.init /\ ~HashChangePending) =>
        /\ Cardinality(active) = 1
        /\ active \subseteq {"dashboard", "workspace"}
        /\ active = {hash}

(***************************************************************************)
(* Claims about the loader overlay.                                        *)
(***************************************************************************)
\* C28: every time the loader overlay is shown it is hidden again in the
\* end: by the run of app.process or of UI.downloadAsZip that showed it,
\* whether the library call of the run succeeds or fails.
C28_LoaderShownIsEventuallyHidden ==
    loader ~> ~loader

(***************************************************************************)
(* Claims about what the page-state actions leave alone.                   *)
(***************************************************************************)
\* The entries of an array as a bag: how often each occurs.
Occurrences(arr, entry) == Cardinality({j \in 1..Len(arr) : arr[j] = entry})

SameEntries(a, b) ==
    /\ Len(a) = Len(b)
    /\ \A j \in 1..Len(a) : Occurrences(a, a[j]) = Occurrences(b, a[j])

\* onEnd keeps the entries of UI.pageState and changes their order only.
DragKeepsEntries ==
    \A oldIndex, newIndex \in 0..(Len(grid) - 1) :
        (oldIndex # newIndex /\ onEnd(oldIndex, newIndex)) =>
            SameEntries(pageState, pageState')

\* rotatePage(k) changes nothing but the rotation of an entry whose
\* originalIndex is k.
RotateChangesOneRotation ==
    \A pos \in 1..Len(grid) :
        (grid[pos].kind = "thumb" /\ rotatePage(grid[pos].index)) =>
            /\ Len(pageState') = Len(pageState)
            /\ \A j \in 1..Len(pageState) :
                  \/ pageState'[j] = pageState[j]
                  \/ /\ pageState[j].originalIndex = grid[pos].index
                     /\ pageState'[j] = [pageState[j] EXCEPT
                                            !.rotation = pageState'[j].rotation]

\* deletePage(k) removes one entry whose originalIndex is k and leaves the
\* others as they are and in their order.
DeleteRemovesOneEntry ==
    \A pos \in 1..Len(grid) :
        (grid[pos].kind = "thumb" /\ deletePage(grid[pos].index, pos)) =>
            \/ pageState' = pageState
            \/ \E j \in 1..Len(pageState) :
                  /\ pageState[j].originalIndex = grid[pos].index
                  /\ pageState' = RemoveAt(pageState, j - 1)

\* C30: each page-state action changes only what it targets.  A drag
\* changes only the order of UI.pageState and keeps its entries;
\* rotatePage(k) changes only the rotation of the entry with originalIndex
\* k; deletePage(k) removes only that entry, wherever it sits after
\* reordering.  Stated for every drag, rotate and delete the editor area
\* lets the user make, whatever the grid holds.
C30_PageStateActionsChangeOnlyTheirTarget ==
    [][/\ dropHidden => DragKeepsEntries
       /\ dropHidden => RotateChangesOneRotation
       /\ dropHidden => DeleteRemovesOneEntry]_vars
====
